---- MODULE Spec2Model ----
(***************************************************************************)
(* fluentrest-ts: layered configuration, the fluent RequestBuilder with    *)
(* its proxy handling, body encoding and sendAndExpect, the                *)
(* RequestExecutor's send, and the ResponseValidator with its assertions.  *)
(*                                                                         *)
(* JavaScript values are modelled as follows.                              *)
(*   - a JS string whose characters matter (proxy URLs, payload text) is a *)
(*     sequence of one-character strings;                                  *)
(*   - an opaque JS string (header names, content types, paths) is a TLA+  *)
(*     string;                                                             *)
(*   - a message text is the sequence of the parts it is concatenated      *)
(*     from: each literal text one element, each interpolated value        *)
(*     character by character;                                             *)
(*   - a JS object with optional keys is a function whose DOMAIN is the    *)
(*     set of keys present; `delete o.k` removes k from the DOMAIN, while  *)
(*     `o.k = undefined` keeps k and maps it to Undefined.                 *)
(***************************************************************************)
EXTENDS FiniteSets, Integers, Sequences, TLC

\* env            process.env as initDefaults reads it (config.ts:21-31)
\* globalDefaults module variable of config.ts:19, Undefined until first use
\* builders       the RequestBuilder instances, by name; each holds the fields
\*                of request-builder.ts:17-21 and two history fields:
\*                ctorDefaults (the merged defaults of line 24) and proxyCall
\*                (the last setProxy / clearProxy call that returned)
\* lastRequest    the fullConfig last handed to axios.request
\*                (request-executor.ts:29-38), with the sender's history fields
\* logWrites      the entries appended to log files, in order (logger.ts:13-21)
\* lastCall       the last call made: operation, receiver, arguments, error
\*                raised and value returned
\* merged         the value the last getMergedDefaults call returned
\* configured     per key, the value of the latest configureDefaults call that
\*                carried the key
\* validator      the ResponseValidatorImpl the last completed send returned
\*                (request-executor.ts:46), with the name of the sending
\*                builder; catchAndLog writes to the error it holds
\* pending        the sendAndExpect or when* call whose request is in flight:
\*                it is suspended at the await of request-builder.ts:379 or
\*                of request-executor.ts:38
\* axiosCalls     the number of axios.request calls made so far
\*                (request-executor.ts:38)
VARIABLES env, globalDefaults, builders, lastRequest, logWrites, lastCall, merged, configured,
          validator, pending, axiosCalls

vars == <<env, globalDefaults, builders, lastRequest, logWrites, lastCall, merged, configured,
          validator, pending, axiosCalls>>

(***************************************************************************)
(* Bounds                                                                  *)
(***************************************************************************)
\* entries the log files may hold; a send that would exceed it is not taken
MaxLogWrites == 2

\* axios.request calls a behaviour may make; a send beyond it is not taken
MaxAxiosCalls == 2

\* catchAndLog calls that lengthen the message of one captured error
MaxAppends == 2

(***************************************************************************)
(* JS object helpers                                                       *)
(***************************************************************************)
Undefined == [kind |-> "undefined"]

Has(o, k) == k \in DOMAIN o

Get(o, k) == IF k \in DOMAIN o THEN o[k] ELSE Undefined

Put(o, k, v) == [x \in (DOMAIN o) \cup {k} |-> IF x = k THEN v ELSE o[x]]

Delete(o, k) == [x \in (DOMAIN o) \ {k} |-> o[x]]

\* { ...a, ...b }
Spread(a, b) == [x \in (DOMAIN a) \cup (DOMAIN b) |-> IF x \in DOMAIN b THEN b[x] ELSE a[x]]

EmptyObject == [x \in {} |-> Undefined]

\* what `...o` contributes to an object literal: nothing when o is undefined
Own(o, k) == IF Has(o, k) /\ o[k] # Undefined THEN o[k] ELSE EmptyObject

\* String.prototype.startsWith
StartsWith(s, prefix) ==
  /\ Len(s) >= Len(prefix)
  /\ \A i \in 1..Len(prefix) : s[i] = prefix[i]

\* /^https?:\/\//.test(s)
MatchesHttpScheme(s) ==
  \/ StartsWith(s, <<"h", "t", "t", "p", ":", "/", "/">>)
  \/ StartsWith(s, <<"h", "t", "t", "p", "s", ":", "/", "/">>)

(***************************************************************************)
(* Proxy specifications                                                    *)
(***************************************************************************)
HttpProxyUrl == <<"h", "t", "t", "p", ":", "/", "/", "p">>

HttpsProxyUrl == <<"h", "t", "t", "p", "s", ":", "/", "/", "p">>

ValidProxyUrls == {HttpProxyUrl, HttpsProxyUrl}

InvalidProxyUrls ==
  { <<>>,
    <<"p">>,
    <<"f", "t", "p", ":", "/", "/", "p">>,
    <<"h", "t", "t", "p", ":", "/", "p">>,
    <<"h", "t", "t", "p", "x", ":", "/", "/", "p">> }

UrlProxy(u) == [kind |-> "string", url |-> u]

ValidClassicProxies ==
  { [kind |-> "object", host |-> "proxy.example.com", port |-> 8080],
    [kind |-> "object", host |-> "custom.proxy.com", port |-> 3128] }

InvalidClassicProxies ==
  { [kind |-> "object"],
    [kind |-> "object", host |-> "proxy.example.com"],
    [kind |-> "object", port |-> 8080],
    [kind |-> "object", host |-> "", port |-> 8080],
    [kind |-> "object", host |-> "proxy.example.com", port |-> 0] }

ValidProxies == {UrlProxy(u) : u \in ValidProxyUrls} \cup ValidClassicProxies

InvalidProxies == {UrlProxy(u) : u \in InvalidProxyUrls} \cup InvalidClassicProxies

AllProxies == ValidProxies \cup InvalidProxies

\* JS truthiness of proxy.host / proxy.port
HostTruthy(p) == Has(p, "host") /\ p.host # ""

PortTruthy(p) == Has(p, "port") /\ p.port # 0

\* JS truthiness of a ProxyConfig | undefined value
ProxyTruthy(p) ==
  /\ p # Undefined
  /\ (p.kind = "string" => p.url # <<>>)

\* the string parses as an absolute URL (new URL(s) does not throw): it has a
\* scheme, one or more characters followed by ":"
IsAbsoluteUrl(s) == \E i \in 2..Len(s) : s[i] = ":" /\ \A j \in 1..(i - 1) : s[j] \notin {":", "/"}

\* new HttpsProxyAgent(proxy)
HttpsProxyAgent(u) == [kind |-> "agent", proxy |-> u]

(***************************************************************************)
(* config.ts                                                               *)
(***************************************************************************)
DefaultKeys == {"timeout", "logLevel", "logFilePath", "baseUrl", "proxy"}

\* Number(s) for the environment strings of the model
NumberOf(s) == IF s = "20000" THEN 20000 ELSE -1

PidLogFile == "logs/restassured-PID.log"

initDefaults(e) ==
  [ timeout     |-> IF Has(e, "RA_TIMEOUT") THEN NumberOf(e["RA_TIMEOUT"]) ELSE 10000,
    logLevel    |-> IF Has(e, "RA_LOG_LEVEL") THEN e["RA_LOG_LEVEL"] ELSE "info",
    logFilePath |-> IF Has(e, "RA_LOG_FILE") THEN e["RA_LOG_FILE"] ELSE PidLogFile,
    baseUrl     |-> IF Has(e, "RA_BASE_URL") THEN e["RA_BASE_URL"] ELSE "https://example.com",
    proxy       |-> IF Has(e, "RA_PROXY") THEN UrlProxy(e["RA_PROXY"]) ELSE Undefined ]

\* the value getCurrentDefaults() returns; g is the module variable globalDefaults
getCurrentDefaults(g, e) == IF g = Undefined THEN initDefaults(e) ELSE g

\* getMergedDefaults with the spread order swapped: the defaults win
getMergedDefaultsDefaultsWin(g, e, overrides) == Spread(overrides, getCurrentDefaults(g, e))

\* the value configureDefaults(overrides) assigns to globalDefaults
configureDefaults(g, e, overrides) == Spread(getCurrentDefaults(g, e), overrides)

getMergedDefaults(g, e, overrides) == Spread(getCurrentDefaults(g, e), overrides)

(***************************************************************************)
(* logger.ts                                                               *)
(***************************************************************************)
LogLevels == {"none", "info", "debug"}

levels(l) == IF l = "none" THEN 0 ELSE IF l = "info" THEN 1 ELSE 2

shouldLog(current, required) == levels(current) >= levels(required)

\* path.resolve(process.cwd(), getCurrentDefaults().logFilePath)
resolveLogFilePath(g, e) == [cwd |-> "process.cwd()", rel |-> getCurrentDefaults(g, e).logFilePath]

\* the entries log(label, data, logLevel, logToFile, level) appends for builder b
log(g, e, b, label, logLevel, logToFile, level) ==
  IF shouldLog(logLevel, level) /\ logToFile
  THEN << [builder |-> b, label |-> label, path |-> resolveLogFilePath(g, e)] >>
  ELSE << >>

\* the Request entry is written at info verbosity and above
logRequest(g, e, b, logLevel, logToFile) ==
  IF ~shouldLog(logLevel, "info") THEN << >>
  ELSE log(g, e, b, "Request", logLevel, logToFile, "info")

logResponse(g, e, b, logLevel, logToFile) ==
  IF ~shouldLog(logLevel, "info") THEN << >>
  ELSE log(g, e, b, "Response", logLevel, logToFile, "info")

logError(g, e, b, label, logLevel, logToFile) ==
  log(g, e, b, label, logLevel, logToFile, "debug")

(***************************************************************************)
(* request-builder.ts: RequestBuilder                                      *)
(***************************************************************************)
Builders == {"A", "B"}

NoBuilder == [constructed |-> FALSE]

NoProxyCall == [op |-> "none"]

applyProxy(self, proxy) ==
  IF ~ProxyTruthy(proxy) THEN self
  ELSE IF proxy.kind = "string" THEN
    LET agent == HttpsProxyAgent(proxy.url)
        isHttpsProxy == StartsWith(proxy.url, <<"h", "t", "t", "p", "s", ":", "/", "/">>)
    IN [self EXCEPT
          !.proxyAgent = agent,
          !.proxyOverride = Undefined,
          !.config = Put(Put(@, "httpAgent", IF isHttpsProxy THEN Undefined ELSE agent),
                         "httpsAgent", IF isHttpsProxy THEN agent ELSE Undefined)]
  ELSE IF HostTruthy(proxy) /\ PortTruthy(proxy) THEN
    [self EXCEPT
          !.proxyOverride = proxy,
          !.proxyAgent = Undefined,
          !.config = Put(Delete(Delete(@, "httpAgent"), "httpsAgent"), "proxy", proxy)]
  ELSE self

\* new RequestBuilder(overrides), given the merged defaults of line 24
RequestBuilder(defaults) ==
  applyProxy(
    [ constructed   |-> TRUE,
      config        |-> [baseURL |-> defaults.baseUrl, timeout |-> defaults.timeout],
      logLevel      |-> defaults.logLevel,
      logToFile     |-> FALSE,
      proxyOverride |-> Undefined,
      proxyAgent    |-> Undefined,
      ctorDefaults  |-> defaults,
      proxyCall     |-> NoProxyCall ],
    Get(defaults, "proxy"))

setBaseUrl(self, url) == [self EXCEPT !.config = Put(@, "baseURL", url)]

setTimeout(self, ms) == [self EXCEPT !.config = Put(@, "timeout", ms)]

setLogLevel(self, level) == [self EXCEPT !.logLevel = level]

enableFileLogging(self, enable) == [self EXCEPT !.logToFile = enable]

\* the result of a call that can throw: the receiver afterwards and the error raised
Returned(self) == [self |-> self, thrown |-> "none"]

Thrown(self, err) == [self |-> self, thrown |-> err]

\* setProxy that applies the proxy before it validates it
setProxyAppliesFirst(self, proxy) ==
  IF proxy.kind = "string" /\ ~MatchesHttpScheme(proxy.url)
  THEN Thrown(applyProxy(self, proxy), "Invalid proxy URL")
  ELSE IF proxy.kind # "string" /\ (~HostTruthy(proxy) \/ ~PortTruthy(proxy))
  THEN Thrown(applyProxy(self, proxy), "Invalid Axios proxy config")
  ELSE Returned([applyProxy(self, proxy) EXCEPT !.proxyCall = [op |-> "setProxy", proxy |-> proxy]])

setProxy(self, proxy) ==
  IF proxy.kind = "string" /\ ~MatchesHttpScheme(proxy.url)
  THEN Thrown(self, "Invalid proxy URL")
  ELSE IF proxy.kind # "string" /\ (~HostTruthy(proxy) \/ ~PortTruthy(proxy))
  THEN Thrown(self, "Invalid Axios proxy config")
  ELSE Returned([applyProxy(self, proxy) EXCEPT !.proxyCall = [op |-> "setProxy", proxy |-> proxy]])

\* clearProxy that resets the two fields but not the request config
clearProxyFieldsOnly(self) ==
  [self EXCEPT
      !.proxyOverride = Undefined,
      !.proxyAgent = Undefined,
      !.proxyCall = [op |-> "clearProxy"]]

clearProxy(self) ==
  [self EXCEPT
      !.proxyOverride = Undefined,
      !.proxyAgent = Undefined,
      !.config = Delete(Delete(Delete(@, "proxy"), "httpAgent"), "httpsAgent"),
      !.proxyCall = [op |-> "clearProxy"]]

\* givenHeader that drops the headers set before
givenHeaderReplacesMap(self, key, value) ==
  [self EXCEPT !.config = Put(@, "headers", [x \in {key} |-> value])]

givenHeader(self, key, value) ==
  [self EXCEPT !.config =
     Put(@, "headers", Spread(Own(@, "headers"), [x \in {key} |-> value]))]

givenQueryParam(self, key, value) ==
  [self EXCEPT !.config =
     Put(@, "params", Spread(Own(@, "params"), [x \in {key} |-> value]))]

(***************************************************************************)
(* Payloads and their encodings (givenBody)                                *)
(***************************************************************************)
Str(chars) == [t |-> "string", chars |-> chars]

Num(n) == [t |-> "number", n |-> n]

Null == [t |-> "null"]

\* an object literal: its own properties in insertion order
Obj(props) == [t |-> "object", props |-> props]

Prop(k, v) == [k |-> k, v |-> v]

Digit(d) == <<"0", "1", "2", "3", "4", "5", "6", "7", "8", "9">>[d + 1]

RECURSIVE DigitsOf(_)
DigitsOf(n) == IF n < 10 THEN <<Digit(n)>> ELSE DigitsOf(n \div 10) \o <<Digit(n % 10)>>

\* String(n) for an integer n
NumberToString(n) == IF n < 0 THEN <<"-">> \o DigitsOf(0 - n) ELSE DigitsOf(n)

RECURSIVE Join(_, _)
Join(parts, sep) ==
  IF Len(parts) = 0 THEN << >>
  ELSE IF Len(parts) = 1 THEN parts[1]
  ELSE parts[1] \o sep \o Join(Tail(parts), sep)

RECURSIVE EscapeJSON(_)
EscapeJSON(chars) ==
  IF Len(chars) = 0 THEN << >>
  ELSE (IF chars[1] \in {"\"", "\\"} THEN <<"\\", chars[1]>> ELSE <<chars[1]>>)
       \o EscapeJSON(Tail(chars))

QuoteJSON(chars) == <<"\"">> \o EscapeJSON(chars) \o <<"\"">>

\* JSON.stringify(value), as a string of characters
RECURSIVE JSONStringify(_)
JSONStringify(value) ==
  CASE value.t = "string" -> QuoteJSON(value.chars)
    [] value.t = "number" -> NumberToString(value.n)
    [] value.t = "null"   -> <<"n", "u", "l", "l">>
    [] value.t = "object" ->
         <<"{">>
         \o Join([i \in 1..Len(value.props) |->
                    QuoteJSON(value.props[i].k) \o <<":">> \o JSONStringify(value.props[i].v)],
                 <<",">>)
         \o <<"}">>

\* qs's percent-encoding of one character (RFC 3986 unreserved characters are kept)
EncodeChar(c) ==
  CASE c = " " -> <<"%", "2", "0">>
    [] c = "&" -> <<"%", "2", "6">>
    [] c = "=" -> <<"%", "3", "D">>
    [] c = "{" -> <<"%", "7", "B">>
    [] c = "}" -> <<"%", "7", "D">>
    [] c = "\"" -> <<"%", "2", "2">>
    [] OTHER -> <<c>>

RECURSIVE EncodeURI(_)
EncodeURI(chars) ==
  IF Len(chars) = 0 THEN << >> ELSE EncodeChar(chars[1]) \o EncodeURI(Tail(chars))

\* the text qs writes for a primitive property value (null gives the empty string)
FormValue(value) ==
  CASE value.t = "string" -> EncodeURI(value.chars)
    [] value.t = "number" -> NumberToString(value.n)
    [] OTHER -> << >>

\* qs.stringify(value) for a flat object; any other value gives the empty string
QsStringify(value) ==
  IF value.t # "object" THEN << >>
  ELSE Join([i \in 1..Len(value.props) |->
               EncodeURI(value.props[i].k) \o <<"=">> \o FormValue(value.props[i].v)],
            <<"&">>)

Omitted == "<omitted>"

FormBoundaryHeader == "multipart/form-data; boundary=BOUNDARY"

\* form.getHeaders()
FormHeaders == [x \in {"content-type"} |-> FormBoundaryHeader]

\* the fields `for (const key in body)` visits: own properties of an object,
\* the indices of a string, nothing for a number or null
FieldsOf(body) ==
  CASE body.t = "object" -> body.props
    [] body.t = "string" ->
         [i \in 1..Len(body.chars) |-> Prop(NumberToString(i - 1), Str(<<body.chars[i]>>))]
    [] OTHER -> << >>

\* new FormData() with every field appended; existing = the values fs.existsSync accepts
FormData(body, existing) ==
  [ t |-> "form",
    fields |-> [i \in 1..Len(FieldsOf(body)) |->
                  LET f == FieldsOf(body)[i]
                  IN Prop(f.k, IF f.v \in existing
                               THEN [t |-> "stream", path |-> f.v]
                               ELSE f.v)] ]

\* EncodeBody that serializes string payloads too
EncodeBodyQuotesStrings(body, contentType, existing) ==
  CASE contentType = "application/json" -> Str(JSONStringify(body))
    [] contentType = "application/x-www-form-urlencoded" -> Str(QsStringify(body))
    [] contentType = "multipart/form-data" -> FormData(body, existing)
    [] OTHER -> body

EncodeBody(body, contentType, existing) ==
  CASE contentType = "application/json" ->
         IF body.t = "string" THEN body ELSE Str(JSONStringify(body))
    [] contentType = "application/x-www-form-urlencoded" ->
         IF body.t = "string" THEN body ELSE Str(QsStringify(body))
    [] contentType = "multipart/form-data" -> FormData(body, existing)
    [] OTHER -> body

givenBody(self, body, contentTypeArg, existing) ==
  LET contentType == IF contentTypeArg = Omitted THEN "application/json" ELSE contentTypeArg
      c1 == Put(self.config, "data", EncodeBody(body, contentType, existing))
      c2 == IF contentType = "multipart/form-data"
            THEN Put(c1, "headers", Spread(Own(c1, "headers"), FormHeaders))
            ELSE c1
      c3 == IF contentType # "multipart/form-data"
            THEN Put(c2, "headers", Spread(Own(c2, "headers"), [x \in {"Content-Type"} |-> contentType]))
            ELSE c2
  IN [self EXCEPT !.config = c3]

getSnapshot(self) ==
  [ method  |-> Get(self.config, "method"),
    url     |-> Get(self.config, "url"),
    headers |-> Get(self.config, "headers"),
    params  |-> Get(self.config, "params"),
    data    |-> Get(self.config, "data"),
    timeout |-> Get(self.config, "timeout"),
    baseURL |-> Get(self.config, "baseURL") ]

(***************************************************************************)
(* request-executor.ts: RequestExecutor.send                               *)
(***************************************************************************)
\* an AxiosResponse: status, parsed body and headers
Response(status, data) ==
  [ status  |-> status,
    data    |-> data,
    headers |-> Obj(<<Prop(<<"e", "t", "a", "g">>, Str(<<"v", "1">>))>>) ]

\* the error axios.request rejects with; err.response is present only when
\* the failure happened after a response had arrived
AxiosError(code) ==
  [name |-> "AxiosError", code |-> code, message |-> <<"Request failed: ", code>>]

AxiosErrorWith(code, response) ==
  [ name     |-> "AxiosError",
    code     |-> code,
    message  |-> <<"Request failed: ", code>>,
    response |-> response ]

\* what `await axios.request(fullConfig)` does: resolve with a response (any
\* status, as validateStatus accepts all) or reject with an error
Resolved(response) == [kind |-> "response", response |-> response]

Rejected(error) == [kind |-> "error", error |-> error]

Outcomes == {Resolved(Response(200, Null)), Rejected(AxiosError("ECONNREFUSED"))}

\* fullConfig of send
fullConfig(config, method, endpoint) ==
  Put(Put(Put(config, "method", method), "url", endpoint), "validateStatus", "always")

\* the log file entries one send appends
sendLog(g, e, b, logLevel, logToFile, outcome) ==
  logRequest(g, e, b, logLevel, logToFile)
  \o (IF outcome.kind = "response"
      THEN logResponse(g, e, b, logLevel, logToFile)
      ELSE logError(g, e, b, "Request Failed", logLevel, logToFile))

\* axios.request called twice for one send
axiosRequestTwice(calls) == calls + 2

\* one axios.request(fullConfig) call; calls counts the calls made before
axiosRequest(calls) == calls + 1

\* `let error: any = null`
NoError == [kind |-> "null"]

\* new ResponseValidatorImpl(response, error, config, logLevel, logToFile):
\* the two proxy parameters are not passed; sender is a history field, the
\* builder whose send built the validator
ResponseValidatorImpl(response, error, config, logLevel, logToFile, sender) ==
  [ response      |-> response,
    error         |-> error,
    config        |-> config,
    logLevel      |-> logLevel,
    logToFile     |-> logToFile,
    proxyOverride |-> Undefined,
    proxyAgent    |-> Undefined,
    sender        |-> sender ]

\* the validator send(method, endpoint) resolves with, given what
\* axios.request did
send(config, logLevel, logToFile, method, endpoint, outcome, sender) ==
  IF outcome.kind = "response"
  THEN ResponseValidatorImpl(outcome.response, NoError,
                             fullConfig(config, method, endpoint), logLevel, logToFile, sender)
  ELSE ResponseValidatorImpl(Get(outcome.error, "response"), outcome.error,
                             fullConfig(config, method, endpoint), logLevel, logToFile, sender)

(***************************************************************************)
(* State and operations                                                    *)
(***************************************************************************)
Call(op, b) == [op |-> op, builder |-> b, thrown |-> "none", ret |-> b]

\* the directive a configuration carries to the transport
Directive(config) ==
  [ proxy      |-> Get(config, "proxy"),
    httpAgent  |-> Get(config, "httpAgent"),
    httpsAgent |-> Get(config, "httpsAgent") ]

NoDirective == [proxy |-> Undefined, httpAgent |-> Undefined, httpsAgent |-> Undefined]

\* one request config shared by all builders
SharedConfig(bs, b, self) ==
  [x \in DOMAIN bs |->
     IF x = b THEN self
     ELSE IF bs[x].constructed THEN [bs[x] EXCEPT !.config = self.config]
     ELSE bs[x]]

\* every RequestBuilder instance owns its fields (config, logLevel, logToFile,
\* proxyOverride, proxyAgent): a method of builder b assigns to b's fields only
OwnFields(bs, b, self) == [bs EXCEPT ![b] = self]

\* no request has been handed to the transport yet
NoRequest == [sent |-> FALSE]

\* no send has completed yet
NoValidator == [built |-> FALSE]

\* no sendAndExpect call is suspended
NoPending == [op |-> "none"]

InitWith(envs) ==
  /\ env \in envs
  /\ globalDefaults = Undefined
  /\ builders = [b \in Builders |-> NoBuilder]
  /\ lastRequest = NoRequest
  /\ logWrites = << >>
  /\ lastCall = [op |-> "none"]
  /\ merged = Undefined
  /\ configured = EmptyObject
  /\ validator = NoValidator
  /\ pending = NoPending
  /\ axiosCalls = 0

\* configureDefaults(overrides)
ConfigureDefaults(overrides) ==
  /\ globalDefaults' = configureDefaults(globalDefaults, env, overrides)
  /\ configured' = [k \in (DOMAIN configured) \cup (DOMAIN overrides) |->
                      IF Has(overrides, k) THEN overrides[k] ELSE configured[k]]
  /\ lastCall' = [op |-> "configureDefaults", overrides |-> overrides]
  /\ UNCHANGED <<env, builders, lastRequest, logWrites, merged, validator, pending, axiosCalls>>

\* getMergedDefaults(overrides), called on its own
GetMergedDefaults(overrides) ==
  /\ merged' = getMergedDefaults(globalDefaults, env, overrides)
  /\ globalDefaults' = getCurrentDefaults(globalDefaults, env)
  /\ lastCall' = [op |-> "getMergedDefaults", overrides |-> overrides]
  /\ UNCHANGED <<env, builders, lastRequest, logWrites, configured, validator, pending, axiosCalls>>

\* new RequestBuilder(overrides) / fluentRest(overrides), bound to the name b
Construct(b, overrides) ==
  /\ builders[b] = NoBuilder
  /\ builders' = OwnFields(builders, b,
                            RequestBuilder(getMergedDefaults(globalDefaults, env, overrides)))
  /\ globalDefaults' = getCurrentDefaults(globalDefaults, env)
  /\ lastCall' = Call("new", b) @@ [overrides |-> overrides]
  /\ UNCHANGED <<env, lastRequest, logWrites, merged, configured, validator, pending, axiosCalls>>

\* new RestAssured(): the constructor of RestAssuredCore reads timeout, base
\* URL and log level from the process-wide defaults
RestAssured(defaults) ==
  [ constructed   |-> TRUE,
    config        |-> [timeout |-> defaults.timeout, baseURL |-> defaults.baseUrl],
    logLevel      |-> defaults.logLevel,
    logToFile     |-> FALSE,
    proxyOverride |-> Undefined,
    proxyAgent    |-> Undefined,
    ctorDefaults  |-> defaults,
    proxyCall     |-> NoProxyCall ]

\* fluentRest(options) of rest-assured.ts, the factory of the RestAssured
\* class: Object.assign writes the options into the process-wide defaults
\* object, then the builder is constructed from it
FluentRestRestAssured(b, options) ==
  /\ builders[b] = NoBuilder
  /\ LET defaults == Spread(getCurrentDefaults(globalDefaults, env), options)
     IN /\ globalDefaults' = defaults
        /\ builders' = OwnFields(builders, b, RestAssured(defaults))
  /\ lastCall' = Call("fluentRest", b) @@ [overrides |-> options]
  /\ UNCHANGED <<env, lastRequest, logWrites, merged, configured, validator, pending, axiosCalls>>

\* new RequestBuilder(overrides) when `new HttpsProxyAgent(proxy)` of line 40
\* throws.  The agent's constructor is library code: the versions that parse
\* the string with `new URL` throw on one that is no absolute URL, those that
\* use url.parse accept it (Construct), so both outcomes are possible.
ConstructThrows(b, overrides) ==
  /\ builders[b] = NoBuilder
  /\ LET proxy == Get(getMergedDefaults(globalDefaults, env, overrides), "proxy")
     IN /\ ProxyTruthy(proxy)
        /\ proxy.kind = "string"
        /\ ~IsAbsoluteUrl(proxy.url)
  /\ globalDefaults' = getCurrentDefaults(globalDefaults, env)
  /\ lastCall' = [Call("new", b) EXCEPT !.thrown = "TypeError: Invalid URL", !.ret = "none"]
                 @@ [overrides |-> overrides]
  /\ UNCHANGED <<env, builders, lastRequest, logWrites, merged, configured, validator, pending,
                 axiosCalls>>

SetProxy(b, proxy) ==
  /\ builders[b].constructed
  /\ LET r == setProxy(builders[b], proxy)
     IN /\ builders' = OwnFields(builders, b, r.self)
        /\ lastCall' = [Call("setProxy", b) EXCEPT
                          !.thrown = r.thrown,
                          !.ret = IF r.thrown = "none" THEN b ELSE "none"]
                       @@ [proxy |-> proxy]
  /\ UNCHANGED <<env, globalDefaults, lastRequest, logWrites, merged, configured, validator, pending, axiosCalls>>

ClearProxy(b) ==
  /\ builders[b].constructed
  /\ builders' = OwnFields(builders, b, clearProxy(builders[b]))
  /\ lastCall' = Call("clearProxy", b)
  /\ UNCHANGED <<env, globalDefaults, lastRequest, logWrites, merged, configured, validator, pending, axiosCalls>>

SetBaseUrl(b, url) ==
  /\ builders[b].constructed
  /\ builders' = OwnFields(builders, b, setBaseUrl(builders[b], url))
  /\ lastCall' = Call("setBaseUrl", b)
  /\ UNCHANGED <<env, globalDefaults, lastRequest, logWrites, merged, configured, validator, pending, axiosCalls>>

SetTimeout(b, ms) ==
  /\ builders[b].constructed
  /\ builders' = OwnFields(builders, b, setTimeout(builders[b], ms))
  /\ lastCall' = Call("setTimeout", b)
  /\ UNCHANGED <<env, globalDefaults, lastRequest, logWrites, merged, configured, validator, pending, axiosCalls>>

SetLogLevel(b, level) ==
  /\ builders[b].constructed
  /\ builders' = OwnFields(builders, b, setLogLevel(builders[b], level))
  /\ lastCall' = Call("setLogLevel", b)
  /\ UNCHANGED <<env, globalDefaults, lastRequest, logWrites, merged, configured, validator, pending, axiosCalls>>

EnableFileLogging(b, enable) ==
  /\ builders[b].constructed
  /\ builders' = OwnFields(builders, b, enableFileLogging(builders[b], enable))
  /\ lastCall' = Call("enableFileLogging", b)
  /\ UNCHANGED <<env, globalDefaults, lastRequest, logWrites, merged, configured, validator, pending, axiosCalls>>

GivenHeader(b, key, value) ==
  /\ builders[b].constructed
  /\ builders' = OwnFields(builders, b, givenHeader(builders[b], key, value))
  /\ lastCall' = Call("givenHeader", b) @@ [key |-> key, value |-> value]
  /\ UNCHANGED <<env, globalDefaults, lastRequest, logWrites, merged, configured, validator, pending, axiosCalls>>

GivenQueryParam(b, key, value) ==
  /\ builders[b].constructed
  /\ builders' = OwnFields(builders, b, givenQueryParam(builders[b], key, value))
  /\ lastCall' = Call("givenQueryParam", b) @@ [key |-> key, value |-> value]
  /\ UNCHANGED <<env, globalDefaults, lastRequest, logWrites, merged, configured, validator, pending, axiosCalls>>

GivenBody(b, body, contentTypeArg, existing) ==
  /\ builders[b].constructed
  /\ builders' = OwnFields(builders, b, givenBody(builders[b], body, contentTypeArg, existing))
  /\ lastCall' = Call("givenBody", b) @@ [body |-> body, contentType |-> contentTypeArg]
  /\ UNCHANGED <<env, globalDefaults, lastRequest, logWrites, merged, configured, validator, pending, axiosCalls>>

\* a when* method that assigns method and url to the builder's own config
\* before sending it
WhenSendStoresRequest(b, method, endpoint, outcome) ==
  /\ builders[b].constructed
  /\ LET self == [builders[b] EXCEPT !.config = Put(Put(@, "method", method), "url", endpoint)]
         entries == sendLog(globalDefaults, env, b, self.logLevel, self.logToFile, outcome)
     IN /\ Len(logWrites) + Len(entries) <= MaxLogWrites
        /\ axiosCalls < MaxAxiosCalls
        /\ builders' = OwnFields(builders, b, self)
        /\ lastRequest' = [ sent      |-> TRUE,
                            builder   |-> b,
                            config    |-> fullConfig(self.config, method, endpoint),
                            outcome   |-> outcome,
                            proxyCall |-> self.proxyCall,
                            ctorProxy |-> Get(self.ctorDefaults, "proxy") ]
        /\ axiosCalls' = axiosRequest(axiosCalls)
        /\ validator' = [ built |-> TRUE,
                          v     |-> send(self.config, self.logLevel, self.logToFile,
                                         method, endpoint, outcome, b) ]
        /\ logWrites' = logWrites \o entries
        /\ globalDefaults' = IF entries = << >> THEN globalDefaults
                             ELSE getCurrentDefaults(globalDefaults, env)
  /\ lastCall' = Call("when", b)
  /\ UNCHANGED <<env, merged, configured, pending>>

\* whenGet / whenPost / ... (endpoint): one RequestExecutor.send with the builder's config
WhenSend(b, method, endpoint, outcome) ==
  /\ builders[b].constructed
  /\ LET self == builders[b]
         entries == sendLog(globalDefaults, env, b, self.logLevel, self.logToFile, outcome)
     IN /\ Len(logWrites) + Len(entries) <= MaxLogWrites
        /\ axiosCalls < MaxAxiosCalls
        /\ lastRequest' = [ sent      |-> TRUE,
                            builder   |-> b,
                            config    |-> fullConfig(self.config, method, endpoint),
                            outcome   |-> outcome,
                            proxyCall |-> self.proxyCall,
                            ctorProxy |-> Get(self.ctorDefaults, "proxy") ]
        /\ axiosCalls' = axiosRequest(axiosCalls)
        /\ validator' = [ built |-> TRUE,
                          v     |-> send(self.config, self.logLevel, self.logToFile,
                                         method, endpoint, outcome, b) ]
        /\ logWrites' = logWrites \o entries
        /\ globalDefaults' = IF entries = << >> THEN globalDefaults
                             ELSE getCurrentDefaults(globalDefaults, env)
  /\ lastCall' = Call("when", b)
  /\ UNCHANGED <<env, builders, merged, configured, pending>>

\* the executor's config read when the response arrives, from the builder's
\* live config object
liveConfig(p, bs) == bs[p.builder].config

\* the config a send in flight holds: `{ ...this.config, method, url }` is
\* evaluated during the when* call, before the await of axios.request, so it
\* is a copy of the builder's config of that moment; the builder's methods
\* assign to the fields of its own config object and replace (never mutate)
\* the headers and params objects the copy shares
frozenConfig(p, bs) == p.config

\* a when* call that is not awaited at once, up to the await inside send: the
\* request is logged and handed to axios
WhenCall(b, method, endpoint) ==
  /\ builders[b].constructed
  /\ pending = NoPending
  /\ axiosCalls < MaxAxiosCalls
  /\ LET self == builders[b]
         entries == logRequest(globalDefaults, env, b, self.logLevel, self.logToFile)
     IN /\ Len(logWrites) + Len(entries) <= MaxLogWrites
        /\ pending' = [ op        |-> "when",
                        builder   |-> b,
                        method    |-> method,
                        endpoint  |-> endpoint,
                        config    |-> self.config,
                        logLevel  |-> self.logLevel,
                        logToFile |-> self.logToFile ]
        /\ lastRequest' = [ sent      |-> TRUE,
                            builder   |-> b,
                            config    |-> fullConfig(self.config, method, endpoint),
                            proxyCall |-> self.proxyCall,
                            ctorProxy |-> Get(self.ctorDefaults, "proxy") ]
        /\ axiosCalls' = axiosRequest(axiosCalls)
        /\ logWrites' = logWrites \o entries
        /\ globalDefaults' = IF entries = << >> THEN globalDefaults
                             ELSE getCurrentDefaults(globalDefaults, env)
  /\ lastCall' = [ op       |-> "whenCall",
                   phase    |-> "sent",
                   builder  |-> b,
                   receiver |-> builders[b],
                   method   |-> method,
                   endpoint |-> endpoint ]
  /\ UNCHANGED <<env, builders, merged, configured, validator>>

\* the send in flight resumes: axios.request has resolved or rejected, the
\* response or the error is logged and the validator is built
WhenSettle(outcome) ==
  /\ pending.op = "when"
  /\ LET p == pending
         entries == IF outcome.kind = "response"
                    THEN logResponse(globalDefaults, env, p.builder, p.logLevel, p.logToFile)
                    ELSE logError(globalDefaults, env, p.builder, "Request Failed",
                                  p.logLevel, p.logToFile)
     IN /\ Len(logWrites) + Len(entries) <= MaxLogWrites
        /\ validator' = [ built |-> TRUE,
                          v     |-> send(frozenConfig(p, builders), p.logLevel, p.logToFile,
                                         p.method, p.endpoint, outcome, p.builder) ]
        /\ logWrites' = logWrites \o entries
        /\ globalDefaults' = IF entries = << >> THEN globalDefaults
                             ELSE getCurrentDefaults(globalDefaults, env)
        /\ lastCall' = [ op       |-> "whenCall",
                         phase    |-> "settled",
                         builder  |-> p.builder,
                         method   |-> p.method,
                         endpoint |-> p.endpoint,
                         outcome  |-> outcome ]
  /\ pending' = NoPending
  /\ UNCHANGED <<env, builders, lastRequest, merged, configured, axiosCalls>>

(***************************************************************************)
(* Proxy handling of one builder: construction from the effective config,  *)
(* setProxy, clearProxy and the requests it sends.                         *)
(***************************************************************************)
Only(k, v) == [x \in {k} |-> v]

ProxyEnvs == {EmptyObject, Only("RA_PROXY", HttpsProxyUrl)}

\* proxies that reach the builder through configuration
ConfigProxies ==
  ValidProxies \cup {[kind |-> "object", host |-> "proxy.example.com"], UrlProxy(<< >>), Undefined}

\* proxies set process-wide with configureDefaults
GlobalProxies == {[kind |-> "object", host |-> "proxy.example.com", port |-> 8080], Undefined}

SampleBody == Obj(<<Prop(<<"x">>, Num(1))>>)

InitProxy == InitWith(ProxyEnvs)

NextProxy ==
  \/ \E p \in GlobalProxies : ConfigureDefaults(Only("proxy", p))
  \/ \E o \in {EmptyObject} \cup {Only("proxy", p) : p \in ConfigProxies} : Construct("A", o)
  \/ \E p \in ValidProxies \cup {UrlProxy(<<"p">>), [kind |-> "object", port |-> 8080]} :
        SetProxy("A", p)
  \/ ClearProxy("A")
  \/ WhenSend("A", "get", "/posts/1", Resolved(Response(200, Null)))

SpecProxy == InitProxy /\ [][NextProxy]_vars

(***************************************************************************)
(* setProxy with every valid and invalid specification, on a builder that  *)
(* already carries headers, params and a body.                             *)
(***************************************************************************)
InitSetProxy == InitWith({EmptyObject})

NextSetProxy ==
  \/ \E o \in {EmptyObject} \cup {Only("proxy", p) : p \in ValidProxies} : Construct("A", o)
  \/ \E p \in AllProxies : SetProxy("A", p)
  \/ ClearProxy("A")
  \/ GivenHeader("A", "Accept", "application/json")
  \/ GivenQueryParam("A", "page", "1")
  \/ GivenBody("A", SampleBody, Omitted, {})

SpecSetProxy == InitSetProxy /\ [][NextSetProxy]_vars

HeaderIs(config, key, value) ==
  /\ Has(Own(config, "headers"), key)
  /\ config.headers[key] = value

CarriesClassic(config) == Get(config, "proxy") # Undefined

CarriesAgent(config) ==
  Get(config, "httpAgent") # Undefined \/ Get(config, "httpsAgent") # Undefined

\* C1: no request a builder sends carries both a classic proxy directive and
\* an agent directive, whatever setProxy / clearProxy calls preceded it.
C1_NeverBothDirectives ==
  lastRequest.sent =>
    ~(CarriesClassic(lastRequest.config) /\ CarriesAgent(lastRequest.config))

IsInvalidUrl(p) == p.kind = "string" /\ ~MatchesHttpScheme(p.url)

IsInvalidClassic(p) == p.kind = "object" /\ ~(HostTruthy(p) /\ PortTruthy(p))

\* C2: a setProxy call with a string that does not match ^https?:// raises the
\* invalid-URL error, one with an object lacking host or port raises the
\* invalid-config error, and in both cases the builder is left exactly as it was.
C2_SetProxyRejectsInvalid ==
  [][ (lastCall'.op = "setProxy") =>
        /\ IsInvalidUrl(lastCall'.proxy) =>
             /\ lastCall'.thrown = "Invalid proxy URL"
             /\ builders' = builders
        /\ IsInvalidClassic(lastCall'.proxy) =>
             /\ lastCall'.thrown = "Invalid Axios proxy config"
             /\ builders' = builders ]_vars

C2_Witness ==
  /\ lastCall.op = "setProxy"
  /\ IsInvalidUrl(lastCall.proxy)
  /\ lastCall.thrown = "Invalid proxy URL"
  /\ builders["A"].proxyOverride \in ValidClassicProxies
  /\ Has(builders["A"].config, "data")
  /\ Has(builders["A"].config, "params")
  /\ Has(builders["A"].config.headers, "Accept")

\* C3: right after clearProxy the builder has no active proxy directive, and a
\* request sent while clearProxy is the last proxy call carries neither a
\* classic proxy nor an HTTP/HTTPS agent.
C3_ClearProxyClearsAll ==
  /\ (lastCall.op = "clearProxy") =>
        LET self == builders[lastCall.builder]
        IN /\ self.proxyOverride = Undefined
           /\ self.proxyAgent = Undefined
           /\ Directive(self.config) = NoDirective
  /\ (lastRequest.sent /\ lastRequest.proxyCall.op = "clearProxy") =>
        /\ ~CarriesClassic(lastRequest.config)
        /\ ~CarriesAgent(lastRequest.config)

C3_Witness ==
  /\ lastRequest.sent
  /\ lastRequest.proxyCall.op = "clearProxy"
  /\ lastRequest.ctorProxy \in ValidClassicProxies

\* the directive the decision table assigns to a valid proxy specification
DirectiveOf(p) ==
  IF p = Undefined THEN NoDirective
  ELSE IF p.kind = "string" THEN
    IF StartsWith(p.url, <<"h", "t", "t", "p", "s">>)
    THEN [proxy |-> Undefined, httpAgent |-> Undefined, httpsAgent |-> HttpsProxyAgent(p.url)]
    ELSE [proxy |-> Undefined, httpAgent |-> HttpsProxyAgent(p.url), httpsAgent |-> Undefined]
  ELSE [proxy |-> p, httpAgent |-> Undefined, httpsAgent |-> Undefined]

\* C4: a request carries the directive of the last setProxy(p) and nothing of
\* the construction-time proxy q; without a setProxy or clearProxy call it
\* carries the directive of q (none when there is no q).
C4_ProxyPrecedence ==
  lastRequest.sent =>
    LET r == lastRequest
    IN (r.ctorProxy \in ValidProxies \cup {Undefined}) =>
         /\ (r.proxyCall.op = "setProxy") => Directive(r.config) = DirectiveOf(r.proxyCall.proxy)
         /\ (r.proxyCall.op = "none") => Directive(r.config) = DirectiveOf(r.ctorProxy)

(***************************************************************************)
(* Configuration resolution: configureDefaults and getMergedDefaults over  *)
(* environments and partial override maps.                                 *)
(***************************************************************************)
FullEnv ==
  [ RA_TIMEOUT   |-> "20000",
    RA_LOG_LEVEL |-> "debug",
    RA_LOG_FILE  |-> "logs/run.log",
    RA_BASE_URL  |-> "https://jsonplaceholder.typicode.com",
    RA_PROXY     |-> HttpProxyUrl ]

ConfigEnvs == {EmptyObject, FullEnv, [RA_LOG_FILE |-> "logs/run.log", RA_TIMEOUT |-> "abc"]}

PartialOverrides ==
  { EmptyObject,
    [timeout |-> 15000, logLevel |-> "info", logFilePath |-> "logs/custom.log"],
    [timeout |-> 30000, logLevel |-> "none"],
    [proxy |-> [kind |-> "object", host |-> "proxy.example.com", port |-> 8080]],
    [baseUrl |-> "http://localhost:3000", proxy |-> Undefined] }

InitMerge == InitWith(ConfigEnvs)

NextMerge ==
  \/ \E o \in PartialOverrides : ConfigureDefaults(o)
  \/ \E o \in PartialOverrides : GetMergedDefaults(o)

SpecMerge == InitMerge /\ [][NextMerge]_vars

\* C5: getMergedDefaults resolves each key on its own: the override's value
\* when the overrides carry the key, else the value of the latest
\* configureDefaults call that carried it, else the environment-derived or
\* compiled-in default.
C5_MergeKeyByKey ==
  (lastCall.op = "getMergedDefaults") =>
    /\ DOMAIN merged = DefaultKeys
    /\ \A k \in DefaultKeys :
         merged[k] = IF Has(lastCall.overrides, k) THEN lastCall.overrides[k]
                     ELSE IF Has(configured, k) THEN configured[k]
                     ELSE initDefaults(env)[k]

C5_Witness ==
  /\ lastCall.op = "getMergedDefaults"
  /\ env = FullEnv
  /\ Has(lastCall.overrides, "timeout")
  /\ ~Has(lastCall.overrides, "proxy") /\ Has(configured, "proxy")
  /\ Has(configured, "timeout") /\ configured["timeout"] # lastCall.overrides["timeout"]
  /\ ~Has(lastCall.overrides, "baseUrl") /\ ~Has(configured, "baseUrl")

(***************************************************************************)
(* Builders constructed before and after configureDefaults, and the log    *)
(* file their sends write to.                                              *)
(***************************************************************************)
GlobalOverrides ==
  { [timeout |-> 15000, logFilePath |-> "logs/custom.log"],
    [logLevel |-> "debug", proxy |-> [kind |-> "object", host |-> "proxy.example.com", port |-> 8080]] }

InitConfig == InitWith({EmptyObject})

NextConfig ==
  \/ \E o \in GlobalOverrides : ConfigureDefaults(o)
  \/ \E b \in Builders : Construct(b, EmptyObject)
  \/ \E b \in Builders : EnableFileLogging(b, TRUE)
  \/ \E b \in Builders, outcome \in Outcomes : WhenSend(b, "get", "/posts/1", outcome)

SpecConfig == InitConfig /\ [][NextConfig]_vars

\* C6: a builder keeps the timeout, base URL, log level, proxy directive and
\* log file of the defaults in force when it was constructed, whatever
\* configureDefaults calls follow; a builder constructed without overrides
\* after a configureDefaults call has the values that call set.
C6_ConfigureDefaultsOnlyLater ==
  /\ \A b \in Builders :
       builders[b].constructed =>
         LET self == builders[b]
         IN /\ self.config.timeout = self.ctorDefaults.timeout
            /\ self.config.baseURL = self.ctorDefaults.baseUrl
            /\ self.logLevel = self.ctorDefaults.logLevel
            /\ Directive(self.config) = DirectiveOf(self.ctorDefaults.proxy)
  /\ (lastCall.op = "new") =>
       \A k \in DOMAIN configured : builders[lastCall.builder].ctorDefaults[k] = configured[k]
  /\ \A i \in 1..Len(logWrites) :
       logWrites[i].path.rel = builders[logWrites[i].builder].ctorDefaults.logFilePath

(***************************************************************************)
(* Two builders: every mutator on A, interleaved with B's own calls and    *)
(* sends.                                                                  *)
(***************************************************************************)
InitIsolation == InitWith({EmptyObject})

NextIsolation ==
  \/ \E b \in Builders, o \in {EmptyObject, Only("proxy", UrlProxy(HttpsProxyUrl))} : Construct(b, o)
  \/ GivenHeader("A", "Accept", "application/json")
  \/ GivenHeader("B", "Accept", "text/plain")
  \/ GivenQueryParam("A", "page", "1")
  \/ GivenBody("A", SampleBody, Omitted, {})
  \/ \E p \in {UrlProxy(HttpProxyUrl), [kind |-> "object", host |-> "custom.proxy.com", port |-> 3128]} :
        SetProxy("A", p)
  \/ ClearProxy("A")
  \/ SetTimeout("A", 5000)
  \/ SetBaseUrl("A", "http://localhost:3000")
  \/ WhenSend("B", "get", "/posts/1", Resolved(Response(200, Null)))

SpecIsolation == InitIsolation /\ [][NextIsolation]_vars

BuilderOps ==
  {"givenHeader", "givenQueryParam", "givenBody", "setProxy", "clearProxy", "setTimeout", "setBaseUrl"}

\* C7: a mutator called on one builder leaves every other builder exactly as
\* it was, and a request a builder sends carries that builder's own
\* configuration.
C7_BuildersIsolated ==
  [][ /\ (lastCall'.op \in BuilderOps) =>
           \A b \in Builders \ {lastCall'.builder} : builders'[b] = builders[b]
      /\ (lastCall'.op = "when") =>
           /\ lastRequest'.builder = lastCall'.builder
           /\ \A k \in DOMAIN builders[lastCall'.builder].config :
                lastRequest'.config[k] = builders[lastCall'.builder].config[k]
           /\ DOMAIN lastRequest'.config =
                (DOMAIN builders[lastCall'.builder].config) \cup {"method", "url", "validateStatus"}
    ]_vars

C7_Witness ==
  /\ lastRequest.sent /\ lastRequest.builder = "B"
  /\ HeaderIs(lastRequest.config, "Accept", "text/plain")
  /\ CarriesAgent(lastRequest.config)
  /\ builders["A"].constructed /\ builders["B"].constructed
  /\ HeaderIs(builders["A"].config, "Accept", "application/json")
  /\ Has(builders["A"].config, "data")
  /\ builders["A"].config.timeout = 5000
  /\ CarriesClassic(builders["A"].config)
  /\ builders["B"].config.timeout = 10000
  /\ ~Has(builders["B"].config, "data")

(***************************************************************************)
(* givenHeader / givenQueryParam over several keys and values.             *)
(***************************************************************************)
InitGiven == InitWith({EmptyObject})

NextGiven ==
  \/ Construct("A", EmptyObject)
  \/ \E k \in {"Accept", "X-Id"}, v \in {"application/json", "text/plain"} : GivenHeader("A", k, v)
  \/ \E k \in {"page", "limit"}, v \in {"1", "2"} : GivenQueryParam("A", k, v)
  \/ GivenBody("A", SampleBody, "text/plain", {})
  \/ SetProxy("A", UrlProxy(HttpProxyUrl))
  \/ SetTimeout("A", 5000)

SpecGiven == InitGiven /\ [][NextGiven]_vars

\* what a given* call on one map (headers or params) must do to the builder
ComposesOver(old, new, field, key, value) ==
  /\ new.config[field][key] = value
  /\ DOMAIN new.config[field] = (DOMAIN Own(old.config, field)) \cup {key}
  /\ \A k \in (DOMAIN Own(old.config, field)) \ {key} : new.config[field][k] = old.config[field][k]
  /\ \A k \in {"headers", "params", "data", "timeout", "baseURL"} \ {field} :
       Get(new.config, k) = Get(old.config, k)
  /\ Directive(new.config) = Directive(old.config)
  /\ new.proxyOverride = old.proxyOverride /\ new.proxyAgent = old.proxyAgent

\* C8: givenHeader(k, v) / givenQueryParam(k, v) return the receiver, map k to
\* v, keep every other key of that map, and leave the other map, the body, the
\* timeout, the base URL and the proxy directive unchanged.
C8_GivenComposes ==
  [][ /\ (lastCall'.op = "givenHeader") =>
           /\ lastCall'.ret = lastCall'.builder
           /\ ComposesOver(builders[lastCall'.builder], builders'[lastCall'.builder],
                           "headers", lastCall'.key, lastCall'.value)
      /\ (lastCall'.op = "givenQueryParam") =>
           /\ lastCall'.ret = lastCall'.builder
           /\ ComposesOver(builders[lastCall'.builder], builders'[lastCall'.builder],
                           "params", lastCall'.key, lastCall'.value)
    ]_vars

C8_Witness ==
  /\ lastCall.op = "givenHeader"
  /\ lastCall.key = "Accept" /\ lastCall.value = "text/plain"
  /\ DOMAIN builders["A"].config.headers = {"Accept", "X-Id", "Content-Type"}
  /\ builders["A"].config.headers["Accept"] = "text/plain"
  /\ builders["A"].config.headers["X-Id"] = "application/json"
  /\ Has(builders["A"].config, "params") /\ DOMAIN builders["A"].config.params = {"page", "limit"}
  /\ CarriesAgent(builders["A"].config)

(***************************************************************************)
(* givenBody over payloads and content types, after headers set in any     *)
(* letter case.                                                            *)
(***************************************************************************)
FilePath == Str(<<"a", ".", "t", "x", "t">>)

Payloads ==
  { SampleBody,
    Obj(<<Prop(<<"a">>, Str(<<"b", " ", "c">>)), Prop(<<"n">>, Num(20))>>),
    Obj(<<Prop(<<"f">>, FilePath)>>),
    Str(<<"x", "=", "1">>),
    Str(<<"{", "}">>),
    Num(5),
    Null }

ContentTypes ==
  {"application/json", "application/x-www-form-urlencoded", "multipart/form-data", "text/plain"}

InitBody == InitWith({EmptyObject})

NextBody ==
  \/ Construct("A", EmptyObject)
  \/ \E k \in {"Content-Type", "content-type", "Accept"} : GivenHeader("A", k, "application/xml")
  \/ \E body \in Payloads, ct \in ContentTypes \cup {Omitted}, existing \in {{}, {FilePath}} :
        GivenBody("A", body, ct, existing)

SpecBody == InitBody /\ [][NextBody]_vars

\* String.prototype.toLowerCase on the header names of the model
LowerCase(name) ==
  CASE name = "Content-Type" -> "content-type"
    [] name = "Accept" -> "accept"
    [] OTHER -> name

\* the content type a givenBody call asked for
AskedContentType(call) ==
  IF call.contentType = Omitted THEN "application/json" ELSE call.contentType

\* C9: after givenBody with a content type other than multipart/form-data the
\* Content-Type header is that content type and no header named Content-Type
\* in any letter case holds another value; after a multipart givenBody the
\* form's boundary header is in the map and no header holds the literal
\* multipart/form-data.
C9_ContentTypeOverwritten ==
  (lastCall.op = "givenBody") =>
    LET headers == builders[lastCall.builder].config.headers
        ct == AskedContentType(lastCall)
    IN IF ct # "multipart/form-data"
       THEN /\ Has(headers, "Content-Type") /\ headers["Content-Type"] = ct
            /\ \A k \in DOMAIN headers : (LowerCase(k) = "content-type") => headers[k] = ct
       ELSE /\ \A k \in DOMAIN FormHeaders : Has(headers, k) /\ headers[k] = FormHeaders[k]
            /\ \A k \in DOMAIN headers : headers[k] # "multipart/form-data"

\* C10: givenBody stores the payload encoded by content type: JSON text for a
\* non-string payload under application/json (the default), the form encoding
\* of a map under application/x-www-form-urlencoded, strings verbatim under
\* both, and the payload itself under any other non-multipart content type.
C10_BodyEncodedByContentType ==
  (lastCall.op = "givenBody") =>
    LET data == builders[lastCall.builder].config.data
        headers == builders[lastCall.builder].config.headers
        body == lastCall.body
        ct == lastCall.contentType
    IN /\ (ct \in {"application/json", Omitted}) =>
            /\ data = IF body.t = "string" THEN body ELSE Str(JSONStringify(body))
            /\ headers["Content-Type"] = "application/json"
       /\ (ct \in {"application/json", Omitted} /\ body = SampleBody) =>
            data = Str(<<"{", "\"", "x", "\"", ":", "1", "}">>)
       /\ (ct = "application/x-www-form-urlencoded") =>
            /\ (body.t = "string") => data = body
            /\ (body.t = "object") => data = Str(QsStringify(body))
            /\ (body = SampleBody) => data = Str(<<"x", "=", "1">>)
            /\ headers["Content-Type"] = "application/x-www-form-urlencoded"
       /\ (ct = "text/plain") => data = body

C10_Witness ==
  /\ lastCall.op = "givenBody"
  /\ lastCall.body = SampleBody
  /\ lastCall.contentType = "application/x-www-form-urlencoded"
  /\ builders["A"].config.data = Str(<<"x", "=", "1">>)

(***************************************************************************)
(* Message texts.  A JS string built by a template literal or by + is the  *)
(* sequence of its parts: a literal text is one element, an interpolated   *)
(* value is spelled character by character.                                *)
(***************************************************************************)
\* String.prototype.includes
Includes(s, sub) ==
  \E i \in 1..(Len(s) - Len(sub) + 1) : SubSeq(s, i, i + Len(sub) - 1) = sub

\* the value `undefined` where a payload is expected
UndefinedValue == [t |-> "undefined"]

\* String(value), as `${value}` computes it
StringOf(value) ==
  CASE value.t = "string"    -> value.chars
    [] value.t = "number"    -> NumberToString(value.n)
    [] value.t = "null"      -> <<"n", "u", "l", "l">>
    [] value.t = "undefined" -> <<"u", "n", "d", "e", "f", "i", "n", "e", "d">>
    [] value.t = "object"    -> <<"[object Object]">>

\* JS truthiness of a payload
Truthy(value) ==
  CASE value.t = "string" -> value.chars # << >>
    [] value.t = "number" -> value.n # 0
    [] value.t = "object" -> TRUE
    [] OTHER -> FALSE

\* a === b for two payloads; an object of the response is never the object
\* the caller passes
StrictEquals(a, b) ==
  /\ a.t = b.t
  /\ CASE a.t = "string" -> a.chars = b.chars
       [] a.t = "number" -> a.n = b.n
       [] a.t = "object" -> FALSE
       [] OTHER -> TRUE

\* JSON.stringify(value, null, 2); indent is the indentation of the enclosing line
RECURSIVE JSONStringifyIndented(_, _)
JSONStringifyIndented(value, indent) ==
  IF value.t # "object" THEN JSONStringify(value)
  ELSE IF Len(value.props) = 0 THEN <<"{", "}">>
  ELSE <<"{", "\n">>
       \o Join([i \in 1..Len(value.props) |->
                  indent \o <<" ", " ">> \o QuoteJSON(value.props[i].k) \o <<":", " ">>
                  \o JSONStringifyIndented(value.props[i].v, indent \o <<" ", " ">>)],
               <<",", "\n">>)
       \o <<"\n">> \o indent \o <<"}">>

\* new Error(message); on V8 its stack starts with "Error: " and the message
Error(message) ==
  [ message |-> message,
    stack   |-> <<"Error: ">> \o message \o <<"\n", "    at <anonymous>">> ]

\* formatError for an error without a stack: error?.stack ?? "No stack trace"
formatErrorNoStack(message, error, responseBody, errorCode) ==
  LET bodySnippet == IF Truthy(responseBody)
                     THEN <<"\n", "Response Body:", "\n">> \o JSONStringifyIndented(responseBody, << >>)
                     ELSE << >>
      codePrefix == IF errorCode # Omitted THEN <<"[", errorCode, "] ">> ELSE << >>
  IN codePrefix \o <<message, "\n", "No stack trace">> \o bodySnippet

formatError(message, error, responseBody, errorCode) ==
  LET bodySnippet == IF Truthy(responseBody)
                     THEN <<"\n", "Response Body:", "\n">> \o JSONStringifyIndented(responseBody, << >>)
                     ELSE << >>
      codePrefix == IF errorCode # Omitted THEN <<"[", errorCode, "] ">> ELSE << >>
  IN codePrefix \o <<message, "\n">> \o error.stack \o bodySnippet

(***************************************************************************)
(* assertions.ts                                                           *)
(***************************************************************************)
\* the outcome of a call that may throw: whether it threw, the message of the
\* Error thrown, and the labels logError was called with
Pass == [thrown |-> FALSE, message |-> << >>, logged |-> << >>]

Fail(message, logged) == [thrown |-> TRUE, message |-> message, logged |-> logged]

\* the failure of an assertion: formatError's text, logged under label
AssertionError(title, error, responseBody, errorCode, label) ==
  Fail(formatError(title, error, responseBody, errorCode), <<label>>)

expectStatus(response, status) ==
  IF response.status # status
  THEN AssertionError("Status assertion failed",
                      Error(<<"Expected status ">> \o NumberToString(status)
                            \o <<", got ">> \o NumberToString(response.status)),
                      response.data, "ERR_ASSERTION_STATUS", "Status Assertion Error")
  ELSE Pass

\* the value of property key of an object (the last one wins), or undefined
RECURSIVE PropOf(_, _)
PropOf(object, key) ==
  IF object.t # "object" \/ Len(object.props) = 0 THEN UndefinedValue
  ELSE LET last == object.props[Len(object.props)]
       IN IF last.k = key THEN last.v
          ELSE PropOf(Obj(SubSeq(object.props, 1, Len(object.props) - 1)), key)

RECURSIVE Flatten(_)
Flatten(seqs) == IF Len(seqs) = 0 THEN << >> ELSE seqs[1] \o Flatten(Tail(seqs))

\* a path is a sequence of steps: .key (deep = FALSE) or ..key (deep = TRUE)
Child(key) == [deep |-> FALSE, key |-> key]

Descendant(key) == [deep |-> TRUE, key |-> key]

\* the values ..key selects: the property of this value first, then those of
\* its object-valued properties, in order
RECURSIVE Descend(_, _)
Descend(value, key) ==
  IF value.t # "object" THEN << >>
  ELSE (IF key \in {value.props[i].k : i \in 1..Len(value.props)}
        THEN <<PropOf(value, key)>> ELSE << >>)
       \o Flatten([i \in 1..Len(value.props) |-> Descend(value.props[i].v, key)])

\* JSONPath({ path, json }): every value the path selects, in document order
RECURSIVE JSONPath(_, _)
JSONPath(path, json) ==
  IF Len(path) = 0 THEN <<json>>
  ELSE LET selected == IF path[1].deep THEN Descend(json, path[1].key)
                       ELSE IF json.t = "object"
                               /\ path[1].key \in {json.props[i].k : i \in 1..Len(json.props)}
                            THEN <<PropOf(json, path[1].key)>>
                            ELSE << >>
       IN Flatten([i \in 1..Len(selected) |-> JSONPath(Tail(path), selected[i])])

\* the text of a path: $.a..b
PathText(path) ==
  <<"$">> \o Flatten([i \in 1..Len(path) |->
                        (IF path[i].deep THEN <<".", ".">> ELSE <<".">>) \o path[i].key])

expectBody(response, path, expected) ==
  LET results == JSONPath(path, response.data)
      actual == IF Len(results) > 0 THEN results[1] ELSE UndefinedValue
  IN IF Len(results) = 0 \/ ~StrictEquals(actual, expected)
     THEN AssertionError("Body assertion failed",
                         Error(<<"Expected value at '">> \o PathText(path) \o <<"' to be '">>
                               \o StringOf(expected) \o <<"', got '">> \o StringOf(actual) \o <<"'">>),
                         response.data, "ERR_ASSERTION_BODY", "Body Assertion Error")
     ELSE Pass

\* String.prototype.toLowerCase over the letters of the model's header names
LowerChar(c) == CASE c = "E" -> "e" [] c = "T" -> "t" [] OTHER -> c

ToLowerCase(chars) == [i \in 1..Len(chars) |-> LowerChar(chars[i])]

expectHeader(response, headerKey, expectedValue) ==
  LET actual == PropOf(response.headers, ToLowerCase(headerKey))
  IN IF ~StrictEquals(actual, expectedValue)
     THEN AssertionError("Header assertion failed",
                         Error(<<"Expected header '">> \o headerKey \o <<"' to be '">>
                               \o StringOf(expectedValue) \o <<"', got '">> \o StringOf(actual) \o <<"'">>),
                         response.headers, "ERR_ASSERTION_HEADER", "Header Assertion Error")
     ELSE Pass

\* expectBodyContains with `some` in place of `every`
expectBodyContainsSome(response, fragment) ==
  LET responseBody == JSONStringify(response.data)
      matches == \E i \in 1..Len(fragment.props) :
                   Includes(responseBody,
                            <<"\"">> \o fragment.props[i].k \o <<"\"", ":">>
                            \o JSONStringify(fragment.props[i].v))
  IN IF ~matches
     THEN AssertionError("Body fragment check failed",
                         Error(<<"Expected body to contain fragment: ">> \o JSONStringify(fragment)),
                         response.data, "ERR_ASSERTION_FRAGMENT", "Body Fragment Assertion Error")
     ELSE Pass

expectBodyContains(response, fragment) ==
  LET responseBody == JSONStringify(response.data)
      matches == \A i \in 1..Len(fragment.props) :
                   Includes(responseBody,
                            <<"\"">> \o fragment.props[i].k \o <<"\"", ":">>
                            \o JSONStringify(fragment.props[i].v))
  IN IF ~matches
     THEN AssertionError("Body fragment check failed",
                         Error(<<"Expected body to contain fragment: ">> \o JSONStringify(fragment)),
                         response.data, "ERR_ASSERTION_FRAGMENT", "Body Fragment Assertion Error")
     ELSE Pass

\* schema.validate(data).error is set: Joi.object() takes objects only,
\* Joi.string() non-empty strings only
SchemaRejects(schema, data) ==
  CASE schema = "Joi.object()" -> data.t # "object"
    [] schema = "Joi.string()" -> data.t # "string" \/ data.chars = << >>

validateBody(response, schema) ==
  IF SchemaRejects(schema, response.data)
  THEN AssertionError("Schema validation failed",
                      Error(<<"Schema validation failed: ", "\"value\" must be of type ", schema>>),
                      response.data, "ERR_VALIDATION_SCHEMA", "Schema Validation Error")
  ELSE Pass

(***************************************************************************)
(* response-validator: ResponseValidatorImpl                               *)
(***************************************************************************)
\* wasFailure that also counts a 4xx / 5xx status as a failure
wasFailureOnStatus(v) ==
  \/ v.error # NoError
  \/ v.response = Undefined
  \/ v.response.status >= 400

wasFailure(v) == v.error # NoError \/ v.response = Undefined

getRequestConfig(v) ==
  Spread(Spread(v.config,
                IF ProxyTruthy(v.proxyOverride) THEN Only("proxy", v.proxyOverride) ELSE EmptyObject),
         IF v.proxyAgent # Undefined
         THEN [httpAgent |-> v.proxyAgent, httpsAgent |-> v.proxyAgent]
         ELSE EmptyObject)

\* this.response?.data
getErrorBody(v) == IF v.response = Undefined THEN UndefinedValue ELSE v.response.data

thenExpectStatus(v, status) ==
  IF v.response = Undefined THEN Fail(<<"No response to validate status.">>, << >>)
  ELSE expectStatus(v.response, status)

thenExpectBody(v, path, expected) ==
  IF v.response = Undefined THEN Fail(<<"No response to validate body.">>, << >>)
  ELSE expectBody(v.response, path, expected)

thenExpectBodyContains(v, fragment) ==
  IF v.response = Undefined THEN Fail(<<"No response to validate body.">>, << >>)
  ELSE expectBodyContains(v.response, fragment)

thenValidateBody(v, schema) ==
  IF v.response = Undefined THEN Fail(<<"No response to validate schema.">>, << >>)
  ELSE validateBody(v.response, schema)

thenExpectHeader(v, key, value) ==
  IF v.response = Undefined THEN Fail(<<"No response to validate header.">>, << >>)
  ELSE expectHeader(v.response, key, value)

\* the callbacks handed to runAssertions and sendAndExpect:
\*   r => r.thenExpectStatus(status)      r => r.thenExpectBody(path, expected)
\*   r => r.thenExpectBodyContains(fragment)
\*   r => {}                              r => { throw new Error(text) }
ExpectStatusFn(status) == [fn |-> "thenExpectStatus", status |-> status]

ExpectBodyFn(path, expected) == [fn |-> "thenExpectBody", path |-> path, expected |-> expected]

ExpectBodyContainsFn(fragment) == [fn |-> "thenExpectBodyContains", fragment |-> fragment]

NoopFn == [fn |-> "noop"]

ThrowFn(text) == [fn |-> "throw", text |-> text]

\* async r => inner(r): the parameter type of runAssertions,
\* (r: ResponseValidator) => void | Promise<void>, admits it
AsyncFn(inner) == [fn |-> "async", inner |-> inner]

\* fn(v): what calling the callback on validator v does.  The body of an async
\* callback runs (and logs) during the call, but what it throws rejects the
\* promise the call returns: the call itself returns normally.
RECURSIVE Invoke(_, _)
Invoke(f, v) ==
  CASE f.fn = "thenExpectStatus"       -> thenExpectStatus(v, f.status)
    [] f.fn = "thenExpectBody"         -> thenExpectBody(v, f.path, f.expected)
    [] f.fn = "thenExpectBodyContains" -> thenExpectBodyContains(v, f.fragment)
    [] f.fn = "noop"                   -> Pass
    [] f.fn = "throw"                  -> Fail(<<f.text>>, << >>)
    [] f.fn = "async"                  -> [Pass EXCEPT !.logged = Invoke(f.inner, v).logged]

\* the for loop of runAssertions without its try/catch: the first failure
\* ends the loop
RECURSIVE runLoopStopsAtFirst(_, _, _)
runLoopStopsAtFirst(v, assertions, acc) ==
  IF Len(assertions) = 0 THEN acc
  ELSE LET r == Invoke(assertions[1], v)
           next == [ invoked |-> Append(acc.invoked, [fn |-> assertions[1], arg |-> v]),
                     errors  |-> IF r.thrown THEN Append(acc.errors, r.message) ELSE acc.errors,
                     logged  |-> acc.logged \o r.logged ]
       IN IF r.thrown THEN next ELSE runLoopStopsAtFirst(v, Tail(assertions), next)

\* the for loop of runAssertions: the callbacks invoked so far, the messages
\* of the errors caught and the labels logged
RECURSIVE runLoop(_, _, _)
runLoop(v, assertions, acc) ==
  IF Len(assertions) = 0 THEN acc
  ELSE LET r == Invoke(assertions[1], v)
       IN runLoop(v, Tail(assertions),
                  [ invoked |-> Append(acc.invoked, [fn |-> assertions[1], arg |-> v]),
                    errors  |-> IF r.thrown THEN Append(acc.errors, r.message) ELSE acc.errors,
                    logged  |-> acc.logged \o r.logged ])

\* runAssertions that throws the first collected error alone
runAssertionsThrowsFirst(v, assertions) ==
  LET done == runLoop(v, assertions, [invoked |-> << >>, errors |-> << >>, logged |-> << >>])
  IN [ invoked |-> done.invoked,
       result  |-> IF Len(done.errors) > 0
                   THEN Fail(done.errors[1], done.logged)
                   ELSE [Pass EXCEPT !.logged = done.logged] ]

runAssertions(v, assertions) ==
  LET done == runLoop(v, assertions, [invoked |-> << >>, errors |-> << >>, logged |-> << >>])
  IN [ invoked |-> done.invoked,
       result  |-> IF Len(done.errors) > 0
                   THEN Fail(<<"Multiple assertion failures:", "\n">> \o Join(done.errors, <<"\n">>),
                             done.logged)
                   ELSE [Pass EXCEPT !.logged = done.logged] ]

(***************************************************************************)
(* Operations on the validator the last send returned                      *)
(***************************************************************************)
\* the log file entries of the logError calls a validator method made
errorLog(g, e, v, logged) ==
  Flatten([i \in 1..Len(logged) |-> logError(g, e, v.sender, logged[i], v.logLevel, v.logToFile)])

\* a validator method that may throw: call names it and its arguments, r is
\* what it did
ValidatorCall(call, r) ==
  /\ LET entries == errorLog(globalDefaults, env, validator.v, r.logged)
     IN /\ Len(logWrites) + Len(entries) <= MaxLogWrites
        /\ logWrites' = logWrites \o entries
        /\ globalDefaults' = IF entries = << >> THEN globalDefaults
                             ELSE getCurrentDefaults(globalDefaults, env)
  /\ lastCall' = call @@ [ thrown  |-> IF r.thrown THEN "Error" ELSE "none",
                           message |-> r.message,
                           ret     |-> IF r.thrown THEN "none" ELSE "this" ]
  /\ UNCHANGED <<env, builders, lastRequest, merged, configured, validator, pending, axiosCalls>>

ThenExpectStatus(status) ==
  /\ validator.built
  /\ ValidatorCall([op |-> "thenExpectStatus", status |-> status],
                   thenExpectStatus(validator.v, status))

ThenExpectBody(path, expected) ==
  /\ validator.built
  /\ ValidatorCall([op |-> "thenExpectBody", path |-> path, expected |-> expected],
                   thenExpectBody(validator.v, path, expected))

ThenExpectBodyContains(fragment) ==
  /\ validator.built
  /\ ValidatorCall([op |-> "thenExpectBodyContains", fragment |-> fragment],
                   thenExpectBodyContains(validator.v, fragment))

ThenValidateBody(schema) ==
  /\ validator.built
  /\ ValidatorCall([op |-> "thenValidateBody", schema |-> schema],
                   thenValidateBody(validator.v, schema))

ThenExpectHeader(key, value) ==
  /\ validator.built
  /\ ValidatorCall([op |-> "thenExpectHeader", key |-> key, value |-> value],
                   thenExpectHeader(validator.v, key, value))

RunAssertions(assertions) ==
  /\ validator.built
  /\ ValidatorCall([ op         |-> "runAssertions",
                     assertions |-> assertions,
                     invoked    |-> runAssertions(validator.v, assertions).invoked ],
                   runAssertions(validator.v, assertions).result)

\* the inspection methods: they return a value and touch nothing
Inspect(op, value) ==
  /\ lastCall' = [op |-> op, thrown |-> "none", value |-> value]
  /\ UNCHANGED <<env, globalDefaults, builders, lastRequest, logWrites, merged, configured,
                 validator, pending, axiosCalls>>

WasFailure ==
  /\ validator.built
  /\ Inspect("wasFailure", wasFailure(validator.v))

GetErrorBody ==
  /\ validator.built
  /\ Inspect("getErrorBody", getErrorBody(validator.v))

GetRequestConfig ==
  /\ validator.built
  /\ Inspect("getRequestConfig", getRequestConfig(validator.v))

(***************************************************************************)
(* catchAndLog                                                             *)
(***************************************************************************)
\* the handlers given to catchAndLog, as data:
\*   (none)      err => {}      err => { throw new Error(text) }
NoHandler == [fn |-> "undefined"]

\* fn(err): what calling the handler does
CallHandler(fn, err) ==
  CASE fn.fn = "noop"  -> Pass
    [] fn.fn = "throw" -> Fail(<<fn.text>>, << >>)

\* `this.response?.data && typeof this.response.data === 'object'`
IsStructuredBody(v) ==
  /\ v.response # Undefined
  /\ Truthy(v.response.data)
  /\ v.response.data.t = "object"

\* catchAndLog(fn): the validator after the call (`err` is this.error itself,
\* an Error instance, so `err.message +=` writes to the captured error), the
\* message of the error built, the messages of the errors handed to fn, and
\* what the call did
catchAndLog(v, fn) ==
  IF v.error # NoError
  THEN LET message == IF IsStructuredBody(v)
                      THEN v.error.message \o <<"\n", "Server response: ">>
                           \o JSONStringify(v.response.data)
                      ELSE v.error.message
           err == [v.error EXCEPT !.message = message]
           self == [v EXCEPT !.error = err]
       IN IF fn = NoHandler
          THEN [self |-> self, built |-> message, handed |-> << >>, result |-> Fail(message, << >>)]
          ELSE [self |-> self, built |-> message, handed |-> <<message>>,
                result |-> CallHandler(fn, err)]
  ELSE IF fn = NoHandler
       THEN [self |-> v, built |-> << >>, handed |-> << >>, result |-> Pass]
       ELSE LET err == Error(<<"Unexpected call to catchAndLog without error">>)
                r == CallHandler(fn, err)
            IN [ self   |-> v,
                 built  |-> << >>,
                 handed |-> <<err.message>>,
                 result |-> IF r.thrown THEN Fail(r.message, <<"Assertion Failed">>) ELSE Pass ]

\* how many "Server response" lines a message has had appended
Appended(message) == Cardinality({i \in 1..Len(message) : message[i] = "Server response: "})

CatchAndLog(fn) ==
  /\ validator.built
  /\ validator.v.error # NoError => Appended(validator.v.error.message) < MaxAppends
  /\ LET r == catchAndLog(validator.v, fn)
         entries == errorLog(globalDefaults, env, validator.v, r.result.logged)
     IN /\ Len(logWrites) + Len(entries) <= MaxLogWrites
        /\ validator' = [built |-> TRUE, v |-> r.self]
        /\ logWrites' = logWrites \o entries
        /\ globalDefaults' = IF entries = << >> THEN globalDefaults
                             ELSE getCurrentDefaults(globalDefaults, env)
        /\ lastCall' = [ op      |-> "catchAndLog",
                         fn      |-> fn,
                         before  |-> validator.v,
                         built   |-> r.built,
                         handed  |-> r.handed,
                         thrown  |-> IF r.result.thrown THEN "Error" ELSE "none",
                         message |-> r.result.message,
                         ret     |-> IF r.result.thrown THEN "none" ELSE "this" ]
  /\ UNCHANGED <<env, builders, lastRequest, merged, configured, pending, axiosCalls>>

(***************************************************************************)
(* request-builder.ts: getConfig and sendAndExpect                         *)
(***************************************************************************)
getConfig(self) ==
  Spread(Spread(self.config,
                IF ProxyTruthy(self.proxyOverride) THEN Only("proxy", self.proxyOverride)
                ELSE EmptyObject),
         IF self.proxyAgent # Undefined
         THEN [httpAgent |-> self.proxyAgent, httpsAgent |-> self.proxyAgent]
         ELSE EmptyObject)

\* givenHeader / givenQueryParam for each of Object.entries(...), in order
RECURSIVE givenHeaders(_, _)
givenHeaders(self, entries) ==
  IF Len(entries) = 0 THEN self
  ELSE givenHeaders(givenHeader(self, entries[1].k, entries[1].v), Tail(entries))

RECURSIVE givenQueryParams(_, _)
givenQueryParams(self, entries) ==
  IF Len(entries) = 0 THEN self
  ELSE givenQueryParams(givenQueryParam(self, entries[1].k, entries[1].v), Tail(entries))

\* the receiver after lines 348-368 of sendAndExpect: `builder` is `this`,
\* and each override is applied to it
sendAndExpect(self, configOverrides) ==
  LET b1 == IF Has(configOverrides, "headers")
            THEN givenHeaders(self, configOverrides.headers) ELSE self
      b2 == IF Has(configOverrides, "body") /\ Truthy(configOverrides.body)
            THEN givenBody(b1, configOverrides.body, Omitted, {}) ELSE b1
      b3 == IF Has(configOverrides, "params")
            THEN givenQueryParams(b2, configOverrides.params) ELSE b2
  IN b3

\* sendAndExpect resumed after the await, when a failed send makes it reject
\* without calling the callback
sendAndExpectResumeRejects(p, outcome) ==
  LET v == send(p.config, p.logLevel, p.logToFile, p.method, p.endpoint, outcome, p.builder)
  IN IF outcome.kind = "error"
     THEN [validator |-> v, invoked |-> << >>, result |-> Fail(<<"Request failed">>, << >>)]
     ELSE [validator |-> v,
           invoked   |-> <<[fn |-> p.assertFn, arg |-> v]>>,
           result    |-> Invoke(p.assertFn, v)]

\* sendAndExpect resumed after `await executor.send(...)`: the validator the
\* send resolved with, the callbacks invoked, and what expect(validator) did
sendAndExpectResume(p, outcome) ==
  LET v == send(p.config, p.logLevel, p.logToFile, p.method, p.endpoint, outcome, p.builder)
  IN [validator |-> v,
      invoked   |-> <<[fn |-> p.assertFn, arg |-> v]>>,
      result    |-> Invoke(p.assertFn, v)]

\* sendAndExpect(method, endpoint, expect, configOverrides) up to its await:
\* the overrides are applied, the request is logged and handed to axios
SendAndExpect(b, method, endpoint, assertFn, configOverrides) ==
  /\ builders[b].constructed
  /\ pending = NoPending
  /\ axiosCalls < MaxAxiosCalls
  /\ LET self == sendAndExpect(builders[b], configOverrides)
         entries == logRequest(globalDefaults, env, b, self.logLevel, self.logToFile)
     IN /\ Len(logWrites) + Len(entries) <= MaxLogWrites
        /\ builders' = OwnFields(builders, b, self)
        /\ pending' = [ op        |-> "sendAndExpect",
                        builder   |-> b,
                        method    |-> method,
                        endpoint  |-> endpoint,
                        assertFn  |-> assertFn,
                        config    |-> getConfig(self),
                        logLevel  |-> self.logLevel,
                        logToFile |-> self.logToFile ]
        /\ lastRequest' = [ sent      |-> TRUE,
                            builder   |-> b,
                            config    |-> fullConfig(getConfig(self), method, endpoint),
                            proxyCall |-> self.proxyCall,
                            ctorProxy |-> Get(self.ctorDefaults, "proxy") ]
        /\ axiosCalls' = axiosRequest(axiosCalls)
        /\ logWrites' = logWrites \o entries
        /\ globalDefaults' = IF entries = << >> THEN globalDefaults
                             ELSE getCurrentDefaults(globalDefaults, env)
  /\ lastCall' = [ op        |-> "sendAndExpect",
                   phase     |-> "sent",
                   builder   |-> b,
                   receiver  |-> builders[b],
                   overrides |-> configOverrides,
                   assertFn  |-> assertFn,
                   invoked   |-> << >> ]
  /\ UNCHANGED <<env, merged, configured, validator>>

\* the pending sendAndExpect resumes: axios.request has resolved or rejected
SendAndExpectSettle(outcome) ==
  /\ pending.op = "sendAndExpect"
  /\ LET p == pending
         done == sendAndExpectResume(p, outcome)
         entries == (IF outcome.kind = "response"
                     THEN logResponse(globalDefaults, env, p.builder, p.logLevel, p.logToFile)
                     ELSE logError(globalDefaults, env, p.builder, "Request Failed",
                                   p.logLevel, p.logToFile))
                    \o errorLog(globalDefaults, env, done.validator, done.result.logged)
     IN /\ Len(logWrites) + Len(entries) <= MaxLogWrites
        /\ validator' = [built |-> TRUE, v |-> done.validator]
        /\ logWrites' = logWrites \o entries
        /\ globalDefaults' = IF entries = << >> THEN globalDefaults
                             ELSE getCurrentDefaults(globalDefaults, env)
        /\ lastCall' = [ op       |-> "sendAndExpect",
                         phase    |-> "settled",
                         builder  |-> p.builder,
                         assertFn |-> p.assertFn,
                         outcome  |-> outcome,
                         invoked  |-> done.invoked,
                         thrown   |-> IF done.result.thrown THEN "Error" ELSE "none",
                         message  |-> done.result.message ]
  /\ pending' = NoPending
  /\ UNCHANGED <<env, builders, lastRequest, merged, configured, axiosCalls>>

(***************************************************************************)
(* sendAndExpect with and without overrides, over every outcome of the     *)
(* transport, beside the builder's own sends.                              *)
(***************************************************************************)
OkBody == Obj(<<Prop(<<"i", "d">>, Num(1))>>)

PartialResponseError == AxiosErrorWith("ERR_BAD_RESPONSE", Response(200, OkBody))

SendOutcomes ==
  { Resolved(Response(200, OkBody)),
    Resolved(Response(404, Obj(<< >>))),
    Rejected(AxiosError("ECONNREFUSED")),
    Rejected(PartialResponseError) }

\* the header, body and query parameter only sendAndExpect's overrides carry
HeaderOverride == [headers |-> <<[k |-> "X-Override", v |-> "1"]>>]

BodyOverride == [body |-> SampleBody]

ParamOverride == [params |-> <<[k |-> "q", v |-> "1"]>>]

ConfigOverrides ==
  { EmptyObject, HeaderOverride, BodyOverride, ParamOverride,
    Spread(HeaderOverride, Spread(BodyOverride, ParamOverride)),
    [body |-> Num(0)] }

ExpectFns == {NoopFn, ExpectStatusFn(200), ThrowFn("boom")}

InitSendAndExpect == InitWith({EmptyObject})

NextSendAndExpect ==
  \/ \E o \in {EmptyObject, Only("logLevel", "none")} : Construct("A", o)
  \/ GivenHeader("A", "Accept", "application/json")
  \/ \E f \in ExpectFns, o \in ConfigOverrides : SendAndExpect("A", "post", "/posts", f, o)
  \/ \E outcome \in SendOutcomes : SendAndExpectSettle(outcome)
  \/ \E outcome \in SendOutcomes : WhenSend("A", "get", "/posts/1", outcome)
  \/ ThenExpectStatus(200)
  \/ WasFailure

SpecSendAndExpect == InitSendAndExpect /\ [][NextSendAndExpect]_vars

\* C11: sendAndExpect leaves the receiver's headers, query params and body as
\* they were before the call, and a request the builder sends with a when*
\* method carries none of the header, body or param overrides of an earlier
\* sendAndExpect (here: the X-Override header, the q parameter, any body).
C11_SendAndExpectKeepsReceiver ==
  /\ (lastCall.op = "sendAndExpect" /\ lastCall.phase = "sent") =>
       \A k \in {"headers", "params", "data"} :
         Get(builders[lastCall.builder].config, k) = Get(lastCall.receiver.config, k)
  /\ (lastCall.op = "when") =>
       /\ ~Has(Own(lastRequest.config, "headers"), "X-Override")
       /\ ~Has(Own(lastRequest.config, "params"), "q")
       /\ ~Has(lastRequest.config, "data")

\* C12: while the request of sendAndExpect is in flight the callback has not
\* been invoked; when the send completes, with a response or with a transport
\* failure, the callback is invoked exactly once with the validator the send
\* produced, and sendAndExpect raises exactly what the callback raised.
C12_SendThenAssertOnce ==
  /\ (lastCall.op = "sendAndExpect" /\ lastCall.phase = "sent") =>
       /\ pending.op = "sendAndExpect"
       /\ lastCall.invoked = << >>
  /\ (lastCall.op = "sendAndExpect" /\ lastCall.phase = "settled") =>
       /\ pending = NoPending
       /\ validator.built
       /\ wasFailure(validator.v) <=> (lastCall.outcome.kind = "error")
       /\ lastCall.invoked = <<[fn |-> lastCall.assertFn, arg |-> validator.v]>>
       /\ (lastCall.thrown = "Error") <=> Invoke(lastCall.assertFn, validator.v).thrown
       /\ lastCall.message = Invoke(lastCall.assertFn, validator.v).message

C12_Witness ==
  /\ lastCall.op = "sendAndExpect" /\ lastCall.phase = "settled"
  /\ lastCall.outcome = Rejected(AxiosError("ECONNREFUSED"))
  /\ lastCall.assertFn = NoopFn
  /\ Len(lastCall.invoked) = 1
  /\ lastCall.thrown = "none"

\* C14: a step that is a when* call or the sending part of a sendAndExpect call
\* makes exactly one axios.request call, whatever the outcome; every other
\* step (the completion of a send included) makes none.
C14_OneTransportCallPerSend ==
  [][ IF lastCall'.op = "when" \/ (lastCall'.op = "sendAndExpect" /\ lastCall'.phase = "sent")
      THEN axiosCalls' = axiosCalls + 1
      ELSE axiosCalls' = axiosCalls ]_vars

C14_Witness ==
  /\ axiosCalls = 2
  /\ lastCall.op = "sendAndExpect" /\ lastCall.phase = "settled"
  /\ lastCall.outcome.kind = "error"
  /\ lastRequest.sent /\ lastRequest.config["method"] = "post"

(***************************************************************************)
(* The validators a send returns, for responses of several statuses and    *)
(* bodies and for transport failures with and without a partial response,  *)
(* and every method called on them.                                        *)
(***************************************************************************)
Chars_id == <<"i", "d">>

\* {"a":1,"b":"x"}
AbBody == Obj(<<Prop(<<"a">>, Num(1)), Prop(<<"b">>, Str(<<"x">>))>>)

\* {"id":1,"item":{"id":2}}
NestedBody == Obj(<<Prop(Chars_id, Num(1)), Prop(<<"i", "t", "e", "m">>, Obj(<<Prop(Chars_id, Num(2))>>))>>)

ValidatorOutcomes ==
  { Resolved(Response(200, OkBody)),
    Resolved(Response(200, Obj(<<Prop(Chars_id, Num(2))>>))),
    Resolved(Response(200, NestedBody)),
    Resolved(Response(404, AbBody)),
    Resolved(Response(500, Str(<< >>))),
    Rejected(AxiosError("ENOTFOUND")),
    Rejected(AxiosError("ECONNREFUSED")),
    Rejected(AxiosError("ECONNABORTED")),
    Rejected(AxiosError("ERR_CANCELED")),
    Rejected(PartialResponseError) }

Paths == {<<Child(Chars_id)>>, <<Descendant(Chars_id)>>, <<Child(<<"x">>)>>}

Fragments ==
  { Obj(<< >>),
    Obj(<<Prop(<<"a">>, Num(1))>>),
    Obj(<<Prop(<<"a">>, Num(2))>>),
    Obj(<<Prop(<<"b">>, Str(<<"x">>)), Prop(<<"a">>, Num(1))>>),
    Obj(<<Prop(<<"a">>, Num(1)), Prop(<<"c">>, Null)>>) }

AssertionFns ==
  {ExpectStatusFn(404), ExpectBodyFn(<<Child(Chars_id)>>, Num(1)), NoopFn, ThrowFn("boom")}

\* every list of at most two callbacks, and two lists of three
AssertionLists ==
  {<< >>}
  \cup {<<f>> : f \in AssertionFns}
  \cup {<<f, g>> : f \in AssertionFns, g \in AssertionFns}
  \cup { <<ExpectStatusFn(404), ThrowFn("boom"), ExpectBodyFn(<<Child(Chars_id)>>, Num(1))>>,
         <<NoopFn, ExpectStatusFn(404), NoopFn>> }

InitValidator == InitWith({EmptyObject})

NextValidator ==
  \/ \E o \in {EmptyObject, Only("logLevel", "debug")} : Construct("A", o)
  \/ EnableFileLogging("A", TRUE)
  \/ \E outcome \in ValidatorOutcomes : WhenSend("A", "get", "/posts/1", outcome)
  \/ \E status \in {200, 404} : ThenExpectStatus(status)
  \/ \E path \in Paths, expected \in {Num(1), Num(2), Str(<<"1">>), OkBody} :
        ThenExpectBody(path, expected)
  \/ \E fragment \in Fragments : ThenExpectBodyContains(fragment)
  \/ \E schema \in {"Joi.object()", "Joi.string()"} : ThenValidateBody(schema)
  \/ \E key \in {<<"E", "T", "a", "g">>, <<"x">>}, value \in {Str(<<"v", "1">>), Str(<<"v", "2">>)} :
        ThenExpectHeader(key, value)
  \/ \E list \in AssertionLists : RunAssertions(list)
  \/ WasFailure
  \/ GetErrorBody
  \/ GetRequestConfig

SpecValidator == InitValidator /\ [][NextValidator]_vars

\* C13: a when* call never raises and its send resolves with a validator:
\* for a response of any status, one for which wasFailure() is false, with no
\* error and the response (status included) as data; for a rejected
\* axios.request, one for which wasFailure() is true, holding the error and
\* the error's response when it carries one.
C13_SendClassifiesOutcomes ==
  (lastCall.op = "when") =>
    /\ lastCall.thrown = "none"
    /\ validator.built
    /\ LET v == validator.v
           outcome == lastRequest.outcome
       IN /\ (outcome.kind = "response") =>
               /\ ~wasFailure(v)
               /\ v.error = NoError
               /\ v.response = outcome.response
          /\ (outcome.kind = "error") =>
               /\ wasFailure(v)
               /\ v.error = outcome.error
               /\ v.response = Get(outcome.error, "response")

C13_Witness ==
  /\ lastCall.op = "when"
  /\ lastRequest.outcome = Resolved(Response(404, AbBody))
  /\ validator.v.response.status = 404
  /\ ~wasFailure(validator.v)

ThenOps ==
  {"thenExpectStatus", "thenExpectBody", "thenExpectHeader", "thenExpectBodyContains", "thenValidateBody"}

InspectOps == {"wasFailure", "getErrorBody", "getRequestConfig"}

NoResponseMessages ==
  { <<"No response to validate status.">>, <<"No response to validate body.">>,
    <<"No response to validate header.">>, <<"No response to validate schema.">> }

\* C15: on a validator built from a transport failure, with or without a
\* partial response, every thenExpect* / thenValidateBody call raises a 'no
\* response' error at once; wasFailure, getErrorBody and getRequestConfig
\* never raise, in either state.
C15_FailedStateRejectsAssertions ==
  /\ (lastCall.op \in ThenOps /\ validator.v.error # NoError) =>
       /\ lastCall.thrown = "Error"
       /\ lastCall.message \in NoResponseMessages
  /\ (lastCall.op \in InspectOps) => lastCall.thrown = "none"

\* the message carries the error code as its prefix
HasCode(message, code) == Len(message) >= 3 /\ SubSeq(message, 1, 3) = <<"[", code, "] ">>

\* C16: in Passing state thenExpectBody(path, expected) returns normally if and
\* only if the path selects exactly one value and that value === expected;
\* otherwise it raises an ERR_ASSERTION_BODY message containing the expected
\* value and the actual (first selected) value.
C16_ExpectBodyExactlyOneMatch ==
  (lastCall.op = "thenExpectBody" /\ ~wasFailure(validator.v)) =>
    LET results == JSONPath(lastCall.path, validator.v.response.data)
    IN /\ (lastCall.thrown = "none") <=>
            (Len(results) = 1 /\ StrictEquals(results[1], lastCall.expected))
       /\ (lastCall.thrown = "Error") =>
            /\ HasCode(lastCall.message, "ERR_ASSERTION_BODY")
            /\ Includes(lastCall.message, StringOf(lastCall.expected))
            /\ (Len(results) > 0) => Includes(lastCall.message, StringOf(results[1]))

\* C17: in Passing state thenExpectStatus(code) returns the validator if and
\* only if the response status equals code; otherwise it raises a message
\* with the code ERR_ASSERTION_STATUS that contains the expected and the
\* actual status.
C17_ExpectStatus ==
  (lastCall.op = "thenExpectStatus" /\ ~wasFailure(validator.v)) =>
    LET actual == validator.v.response.status
    IN IF actual = lastCall.status
       THEN lastCall.thrown = "none" /\ lastCall.ret = "this"
       ELSE /\ lastCall.thrown = "Error"
            /\ HasCode(lastCall.message, "ERR_ASSERTION_STATUS")
            /\ Includes(lastCall.message,
                        <<"Expected status ">> \o NumberToString(lastCall.status)
                        \o <<", got ">> \o NumberToString(actual))
            /\ (lastCall.status = 200 /\ actual = 404) =>
                 /\ Includes(lastCall.message, <<"2", "0", "0">>)
                 /\ Includes(lastCall.message, <<"4", "0", "4">>)

C17_Witness ==
  /\ lastCall.op = "thenExpectStatus"
  /\ lastCall.status = 200
  /\ validator.v.response.status = 404
  /\ lastCall.thrown = "Error"
  /\ ~wasFailure(validator.v)

\* the text "key":<JSON of value> of one pair of a fragment
PairText(pair) == <<"\"">> \o pair.k \o <<"\"", ":">> \o JSONStringify(pair.v)

\* C18: in Passing state thenExpectBodyContains(fragment) returns normally if
\* and only if the JSON text of the body contains "key":<JSON of value> for
\* every pair of the fragment, and otherwise raises an ERR_ASSERTION_FRAGMENT
\* message; against {"a":1,"b":"x"}, {a:1} passes and {a:2} fails; the empty
\* fragment always passes.
C18_ExpectBodyContains ==
  (lastCall.op = "thenExpectBodyContains" /\ ~wasFailure(validator.v)) =>
    LET body == validator.v.response.data
        pairs == lastCall.fragment.props
    IN /\ (lastCall.thrown = "none") <=>
            \A i \in 1..Len(pairs) : Includes(JSONStringify(body), PairText(pairs[i]))
       /\ (lastCall.thrown = "Error") => HasCode(lastCall.message, "ERR_ASSERTION_FRAGMENT")
       /\ (body = AbBody) =>
            /\ JSONStringify(body) =
                 <<"{", "\"", "a", "\"", ":", "1", ",", "\"", "b", "\"", ":", "\"", "x", "\"", "}">>
            /\ (pairs = <<Prop(<<"a">>, Num(1))>>) => lastCall.thrown = "none"
            /\ (pairs = <<Prop(<<"a">>, Num(2))>>) => lastCall.thrown = "Error"
       /\ (pairs = << >>) => lastCall.thrown = "none"

C18_Witness ==
  /\ lastCall.op = "thenExpectBodyContains"
  /\ validator.v.response.data = AbBody
  /\ lastCall.fragment = Obj(<<Prop(<<"a">>, Num(2))>>)
  /\ lastCall.thrown = "Error"
  /\ HasCode(lastCall.message, "ERR_ASSERTION_FRAGMENT")

\* C19: runAssertions(list) invokes every callback of the list exactly once,
\* in list order, each with the validator itself, whether or not an earlier
\* callback raised, in Passing and in Failed state alike.
C19_RunAssertionsInvokesAll ==
  (lastCall.op = "runAssertions") =>
    /\ Len(lastCall.invoked) = Len(lastCall.assertions)
    /\ \A i \in 1..Len(lastCall.assertions) :
         /\ lastCall.invoked[i].fn = lastCall.assertions[i]
         /\ lastCall.invoked[i].arg = validator.v

C19_Witness ==
  /\ lastCall.op = "runAssertions"
  /\ wasFailure(validator.v)
  /\ Len(lastCall.assertions) = 3
  /\ Invoke(lastCall.assertions[1], validator.v).thrown
  /\ Invoke(lastCall.assertions[2], validator.v).thrown
  /\ Len(lastCall.invoked) = 3

\* the messages of the callbacks of the list that raise on validator v, in
\* list order
RECURSIVE RaisedMessages(_, _)
RaisedMessages(list, v) ==
  IF Len(list) = 0 THEN << >>
  ELSE (IF Invoke(list[1], v).thrown THEN <<Invoke(list[1], v).message>> ELSE << >>)
       \o RaisedMessages(Tail(list), v)

\* C20 as stated: runAssertions raises if and only if a callback raised, and
\* the message of the failure it raises is the newline-joined concatenation
\* of the collected messages, in call order; otherwise it returns the
\* validator.
C20_CombinedMessageIsJoin ==
  (lastCall.op = "runAssertions") =>
    LET raised == RaisedMessages(lastCall.assertions, validator.v)
    IN IF Len(raised) > 0
       THEN lastCall.thrown = "Error" /\ lastCall.message = Join(raised, <<"\n">>)
       ELSE lastCall.thrown = "none" /\ lastCall.ret = "this"

\* C20, amended: runAssertions raises if and only if a callback raised; the
\* message of the one failure it raises is the line "Multiple assertion
\* failures:" followed by the newline-joined concatenation of the collected
\* messages, in call order; if no callback raised (the empty list included)
\* it returns the validator.
C20_CombinedMessageAfterHeader ==
  (lastCall.op = "runAssertions") =>
    LET raised == RaisedMessages(lastCall.assertions, validator.v)
    IN IF Len(raised) > 0
       THEN /\ lastCall.thrown = "Error"
            /\ lastCall.message = <<"Multiple assertion failures:", "\n">> \o Join(raised, <<"\n">>)
       ELSE lastCall.thrown = "none" /\ lastCall.ret = "this"

C20_Witness ==
  /\ lastCall.op = "runAssertions"
  /\ lastCall.assertions = <<ExpectStatusFn(404), ExpectBodyFn(<<Child(Chars_id)>>, Num(1))>>
  /\ validator.v.response = Response(200, Obj(<<Prop(Chars_id, Num(2))>>))
  /\ lastCall.thrown = "Error"
  /\ Len(RaisedMessages(lastCall.assertions, validator.v)) = 2

(***************************************************************************)
(* Callbacks that return a promise, given to runAssertions and to          *)
(* sendAndExpect.                                                          *)
(***************************************************************************)
AsyncLists ==
  { <<ExpectStatusFn(200)>>,
    <<AsyncFn(ExpectStatusFn(200))>>,
    <<AsyncFn(ThrowFn("late"))>>,
    <<NoopFn, AsyncFn(ExpectStatusFn(200))>>,
    <<ThrowFn("boom"), AsyncFn(ThrowFn("late"))>> }

AsyncExpectFns == {ExpectStatusFn(200), AsyncFn(ExpectStatusFn(200)), AsyncFn(NoopFn)}

AsyncOutcomes ==
  { Resolved(Response(200, OkBody)),
    Resolved(Response(404, Obj(<< >>))),
    Rejected(AxiosError("ECONNREFUSED")) }

InitAsync == InitWith({EmptyObject})

NextAsync ==
  \/ Construct("A", EmptyObject)
  \/ \E outcome \in AsyncOutcomes : WhenSend("A", "get", "/posts/1", outcome)
  \/ \E l \in AsyncLists : RunAssertions(l)
  \/ \E f \in AsyncExpectFns : SendAndExpect("A", "post", "/posts", f, EmptyObject)
  \/ \E outcome \in AsyncOutcomes : SendAndExpectSettle(outcome)

SpecAsync == InitAsync /\ [][NextAsync]_vars

\* the callback fails on validator v: it throws, or the promise it returns
\* rejects
CallbackFails(f, v) ==
  IF f.fn = "async" THEN Invoke(f.inner, v).thrown ELSE Invoke(f, v).thrown

\* C21: whenever a callback run by runAssertions, or the callback of
\* sendAndExpect, fails (throws, or returns a promise that rejects), the call
\* of runAssertions or sendAndExpect raises an error.
C21_AssertionFailureNeverSwallowed ==
  /\ (lastCall.op = "runAssertions") =>
       ((\E i \in 1..Len(lastCall.assertions) :
           CallbackFails(lastCall.assertions[i], validator.v))
        => lastCall.thrown = "Error")
  /\ (lastCall.op = "sendAndExpect" /\ lastCall.phase = "settled") =>
       (CallbackFails(lastCall.assertFn, validator.v) => lastCall.thrown = "Error")

(***************************************************************************)
(* The requests a builder sends after setProxy, with a when* method and    *)
(* with sendAndExpect.                                                     *)
(***************************************************************************)
InitProxySend == InitWith({EmptyObject})

NextProxySend ==
  \/ \E o \in {EmptyObject} \cup {Only("proxy", p) : p \in ValidProxies} : Construct("A", o)
  \/ \E p \in ValidProxies : SetProxy("A", p)
  \/ ClearProxy("A")
  \/ WhenSend("A", "get", "/posts/1", Resolved(Response(200, Null)))
  \/ SendAndExpect("A", "post", "/posts", NoopFn, EmptyObject)
  \/ SendAndExpectSettle(Resolved(Response(200, Null)))

SpecProxySend == InitProxySend /\ [][NextProxySend]_vars

\* the agent directives of a request config
Agents(config) == [httpAgent |-> Get(config, "httpAgent"), httpsAgent |-> Get(config, "httpsAgent")]

\* C22: a request sent (by a when* method or by sendAndExpect) after
\* setProxy(url) carries the tunneling agent on the path of the URL's scheme
\* only: httpsAgent set and httpAgent unset for https://, the reverse for
\* http://.
C22_AgentOnMatchingPathOnly ==
  (lastRequest.sent /\ lastRequest.proxyCall.op = "setProxy"
                    /\ lastRequest.proxyCall.proxy.kind = "string") =>
    LET url == lastRequest.proxyCall.proxy.url
    IN Agents(lastRequest.config) =
         IF StartsWith(url, <<"h", "t", "t", "p", "s", ":", "/", "/">>)
         THEN [httpAgent |-> Undefined, httpsAgent |-> HttpsProxyAgent(url)]
         ELSE [httpAgent |-> HttpsProxyAgent(url), httpsAgent |-> Undefined]

(***************************************************************************)
(* Builders constructed from an effective configuration whose proxy is     *)
(* invalid: set with configureDefaults, read from RA_PROXY, or given as an *)
(* instance override.                                                      *)
(***************************************************************************)
FtpProxyUrl == <<"f", "t", "p", ":", "/", "/", "p">>

BadConfigProxies ==
  { UrlProxy(<<"p">>),
    UrlProxy(FtpProxyUrl),
    [kind |-> "object", host |-> "proxy.example.com"],
    [kind |-> "object", port |-> 8080] }

BadProxyEnvs == {EmptyObject, Only("RA_PROXY", FtpProxyUrl), Only("RA_PROXY", <<"p">>)}

CtorOverrides ==
  {EmptyObject} \cup {Only("proxy", p) : p \in BadConfigProxies \cup {UrlProxy(HttpProxyUrl)}}

InitConfigProxy == InitWith(BadProxyEnvs)

NextConfigProxy ==
  \/ \E p \in BadConfigProxies : ConfigureDefaults(Only("proxy", p))
  \/ \E b \in Builders, o \in CtorOverrides : Construct(b, o)
  \/ \E b \in Builders, o \in CtorOverrides : ConstructThrows(b, o)
  \/ WhenSend("A", "get", "/posts/1", Resolved(Response(200, Null)))

SpecConfigProxy == InitConfigProxy /\ [][NextConfigProxy]_vars

\* the proxy of the effective configuration of the last construction
EffectiveProxy == Get(getMergedDefaults(globalDefaults, env, lastCall.overrides), "proxy")

\* C23: a construction whose effective-config proxy is a string not starting
\* with http:// or https://, or an object lacking host or port, fails: it
\* throws instead of producing a builder.
C23_ConstructionRejectsInvalidProxy ==
  (lastCall.op = "new" /\ (IsInvalidUrl(EffectiveProxy) \/ IsInvalidClassic(EffectiveProxy))) =>
    /\ lastCall.thrown # "none"
    /\ builders[lastCall.builder] = NoBuilder

(***************************************************************************)
(* One send in flight while the builder that made it is changed.           *)
(***************************************************************************)
InitInFlight == InitWith({EmptyObject})

NextInFlight ==
  \/ Construct("A", EmptyObject)
  \/ GivenHeader("A", "Accept", "application/json")
  \/ GivenQueryParam("A", "page", "1")
  \/ GivenBody("A", SampleBody, Omitted, {})
  \/ SetProxy("A", UrlProxy(HttpProxyUrl))
  \/ ClearProxy("A")
  \/ SetTimeout("A", 5000)
  \/ SetBaseUrl("A", "https://other.example.com")
  \/ \E m \in {"get", "post"} : axiosCalls = 0 /\ WhenCall("A", m, "/posts/1")
  \/ \E outcome \in Outcomes : WhenSettle(outcome)
  \/ GetRequestConfig

SpecInFlight == InitInFlight /\ [][NextInFlight]_vars

\* C24: the request handed to the transport by a when* call is the builder's
\* config of the moment of the call (plus method and url), and stays so while
\* the send is in flight, whatever given*, setProxy, clearProxy, setTimeout
\* or setBaseUrl calls are made meanwhile; the validator the send resolves
\* with reports exactly that request config through getRequestConfig.
C24_WhenFreezesRequest ==
  /\ (pending.op = "when") =>
       fullConfig(pending.config, pending.method, pending.endpoint) = lastRequest.config
  /\ (lastCall.op = "whenCall" /\ lastCall.phase = "sent") =>
       lastRequest.config = fullConfig(lastCall.receiver.config, lastCall.method, lastCall.endpoint)
  /\ (lastCall.op = "whenCall" /\ lastCall.phase = "settled") =>
       getRequestConfig(validator.v) = lastRequest.config
  /\ (lastCall.op = "getRequestConfig" /\ lastRequest.sent /\ pending = NoPending) =>
       lastCall.value = lastRequest.config

\* a send has completed although the builder was given a header, a timeout,
\* a base URL and a proxy after the call
C24_Witness ==
  /\ lastCall.op = "whenCall" /\ lastCall.phase = "settled"
  /\ HeaderIs(builders["A"].config, "Accept", "application/json")
  /\ ~HeaderIs(lastRequest.config, "Accept", "application/json")
  /\ Has(builders["A"].config, "data") /\ ~Has(lastRequest.config, "data")
  /\ builders["A"].config.timeout /= lastRequest.config.timeout
  /\ builders["A"].config.baseURL /= lastRequest.config.baseURL
  /\ CarriesAgent(builders["A"].config) /\ ~CarriesAgent(lastRequest.config)

\* C25: when a send ends in a transport failure and file logging is enabled,
\* the log file holds a "Request Failed" entry of that builder, whatever the
\* builder's log level (none, info or debug).
C25_TransportFailureAlwaysLogged ==
  (lastCall.op = "when" /\ lastRequest.outcome.kind = "error"
                        /\ builders[lastCall.builder].logToFile) =>
    \E i \in 1..Len(logWrites) :
      /\ logWrites[i].label = "Request Failed"
      /\ logWrites[i].builder = lastCall.builder

(***************************************************************************)
(* catchAndLog on validators in Passing and in Failed state, with and      *)
(* without a handler, beside the assertion and inspection methods.         *)
(***************************************************************************)
TextBody == Str(<<"o", "o", "p", "s">>)

CatchOutcomes ==
  { Resolved(Response(200, OkBody)),
    Rejected(AxiosError("ECONNREFUSED")),
    Rejected(PartialResponseError),
    Rejected(AxiosErrorWith("ERR_BAD_RESPONSE", Response(500, TextBody))) }

Handlers == {NoHandler, NoopFn, ThrowFn("boom")}

InitCatch == InitWith({EmptyObject})

NextCatch ==
  \/ \E o \in {EmptyObject, Only("logLevel", "debug"), Only("logLevel", "none")} : Construct("A", o)
  \/ EnableFileLogging("A", TRUE)
  \/ \E outcome \in CatchOutcomes : WhenSend("A", "get", "/posts/1", outcome)
  \/ \E fn \in Handlers : CatchAndLog(fn)
  \/ ThenExpectStatus(200)
  \/ RunAssertions(<<ExpectStatusFn(200), NoopFn>>)
  \/ WasFailure
  \/ GetErrorBody
  \/ GetRequestConfig

SpecCatch == InitCatch /\ [][NextCatch]_vars

\* C26: in Failed state catchAndLog builds an error whose message embeds the
\* transport failure message and, when the partial response body is a
\* structured object, the body's JSON text; a handler is called exactly once
\* with that error and the call returns the validator without raising;
\* without a handler the call raises that error.  In Passing state the
\* function, if any, is called once; a failure it raises is re-raised and, the
\* validator logging to the file, leaves an "Assertion Failed" entry there.
C26_CatchAndLog ==
  (lastCall.op = "catchAndLog") =>
    LET c == lastCall
        v == c.before
    IN IF v.error # NoError
       THEN /\ Includes(c.built, v.error.message)
            /\ IsStructuredBody(v) => Includes(c.built, JSONStringify(v.response.data))
            /\ (c.fn = NoopFn) =>
                 c.handed = <<c.built>> /\ c.thrown = "none" /\ c.ret = "this"
            /\ (c.fn = NoHandler) =>
                 c.handed = << >> /\ c.thrown = "Error" /\ c.message = c.built
       ELSE /\ (c.fn = NoHandler) => c.handed = << >> /\ c.thrown = "none" /\ c.ret = "this"
            /\ (c.fn # NoHandler) => Len(c.handed) = 1
            /\ (c.fn = NoopFn) => c.thrown = "none" /\ c.ret = "this"
            /\ (c.fn = ThrowFn("boom")) =>
                 /\ c.thrown = "Error"
                 /\ c.message = <<"boom">>
                 /\ v.logToFile =>
                      \E i \in 1..Len(logWrites) : logWrites[i].label = "Assertion Failed"

\* the methods of a validator
ValidatorOps ==
  {"thenExpectStatus", "runAssertions", "catchAndLog", "wasFailure", "getErrorBody",
   "getRequestConfig"}

\* C27: a call of an assertion method, of runAssertions, of catchAndLog (with
\* or without handler) or of an inspection method leaves the captured
\* response (status, headers, body) and the captured error, message
\* included, as they were; so two successive catchAndLog calls in Failed
\* state build and hand over the same error message.
C27_CapturedOutcomeImmutable ==
  [][ (lastCall'.op \in ValidatorOps) =>
        /\ validator'.v.response = validator.v.response
        /\ validator'.v.error = validator.v.error
        /\ (lastCall.op = "catchAndLog" /\ lastCall'.op = "catchAndLog") =>
             lastCall'.built = lastCall.built ]_vars

(***************************************************************************)
(* Builders constructed with instance overrides, through the constructor   *)
(* and through the two fluentRest factories, beside configureDefaults.     *)
(***************************************************************************)
InstanceOverrides ==
  { EmptyObject,
    [timeout |-> 30000, logLevel |-> "none"],
    [baseUrl |-> "http://localhost:3000"] }

InitDefaults == InitWith(ConfigEnvs)

NextDefaults ==
  \/ \E o \in {[timeout |-> 15000], [logLevel |-> "debug"]} : ConfigureDefaults(o)
  \/ \E b \in Builders, o \in InstanceOverrides : Construct(b, o)
  \/ \E b \in Builders, o \in InstanceOverrides : FluentRestRestAssured(b, o)

SpecDefaults == InitDefaults /\ [][NextDefaults]_vars

\* the configuration of a builder constructed without overrides when no
\* builder was ever constructed with overrides: per key, the value of the
\* latest configureDefaults call that carried it, else the default
UnoverriddenDefaults ==
  [k \in DefaultKeys |-> IF Has(configured, k) THEN configured[k] ELSE initDefaults(env)[k]]

\* C28: constructing a builder with instance overrides (new
\* RequestBuilder(overrides), fluentRest(overrides)) leaves the value of
\* getCurrentDefaults() as it was, and a builder constructed without
\* overrides has the configuration it would have had if no builder had been
\* constructed before it.
C28_OverridesStayInstanceLocal ==
  [][ (lastCall'.op \in {"new", "fluentRest"}) =>
        /\ getCurrentDefaults(globalDefaults', env') = getCurrentDefaults(globalDefaults, env)
        /\ (lastCall'.overrides = EmptyObject) =>
             builders'[lastCall'.builder].ctorDefaults = UnoverriddenDefaults ]_vars

(***************************************************************************)
(* One builder that sends more than once, with different methods and       *)
(* endpoints, between changes of its settings.                             *)
(***************************************************************************)
InitResend == InitWith({EmptyObject})

NextResend ==
  \/ Construct("A", EmptyObject)
  \/ GivenHeader("A", "Accept", "application/json")
  \/ GivenQueryParam("A", "page", "1")
  \/ GivenBody("A", SampleBody, Omitted, {})
  \/ SetProxy("A", UrlProxy(HttpsProxyUrl))
  \/ SetLogLevel("A", "debug")
  \/ \E outcome \in Outcomes : WhenSend("A", "get", "/posts/1", outcome)
  \/ \E outcome \in Outcomes : WhenSend("A", "post", "/posts", outcome)

SpecResend == InitResend /\ [][NextResend]_vars

\* two request configs agree on every key but method and url
SameApartFromRequestLine(c1, c2) ==
  /\ (DOMAIN c1) \ {"method", "url"} = (DOMAIN c2) \ {"method", "url"}
  /\ \A k \in (DOMAIN c1) \ {"method", "url"} : c1[k] = c2[k]

TenBody == Obj(<<Prop(<<"a">>, Num(10))>>)

\* {"a":"xy","item":{"a":1}}
DeepBody ==
  Obj(<<Prop(<<"a">>, Str(<<"x", "y">>)),
        Prop(<<"i", "t", "e", "m">>, Obj(<<Prop(<<"a">>, Num(1))>>))>>)

FragmentOutcomes ==
  { Resolved(Response(200, TenBody)),
    Resolved(Response(200, AbBody)),
    Resolved(Response(200, DeepBody)),
    Resolved(Response(404, Obj(<< >>))) }

InitFragment == InitWith({EmptyObject})

NextFragment ==
  \/ \E o \in {EmptyObject, Only("logLevel", "none")} : Construct("A", o)
  \/ \E m \in {"get", "post"}, outcome \in FragmentOutcomes : WhenSend("A", m, "/posts/1", outcome)
  \/ \E f \in Fragments : ThenExpectBodyContains(f)
  \/ GetErrorBody

SpecFragment == InitFragment /\ [][NextFragment]_vars

\* the body has, at some nesting depth, a property named key whose value is
\* value
HasPropertyAtDepth(body, key, value) ==
  \E i \in 1..Len(Descend(body, key)) : Descend(body, key)[i] = value

\* C30: whenever thenExpectBodyContains(fragment) passes, the response body
\* contains, for every key k of the fragment, a property named k at some
\* nesting depth whose value equals fragment[k].
C30_BodyContainsIsSound ==
  (lastCall.op = "thenExpectBodyContains" /\ ~wasFailure(validator.v)
                                          /\ lastCall.thrown = "none") =>
    \A i \in 1..Len(lastCall.fragment.props) :
      HasPropertyAtDepth(validator.v.response.data, lastCall.fragment.props[i].k,
                         lastCall.fragment.props[i].v)

====
